---- MODULE Spec2Model ----
(***************************************************************************)
(* Model of the Chit-Chat end-to-end encryption core:                      *)
(*   encoding utilities, identity keys, ECDH/HKDF session keys,            *)
(*   the AES-GCM message cipher, key backup and the session facade.        *)
(*                                                                         *)
(* Data representation                                                     *)
(*   - a JavaScript string is a sequence of UTF-16 code units (numbers);   *)
(*   - an ArrayBuffer / Uint8Array content is a sequence of byte cells     *)
(*     [v, seal, x]: a plain byte has value v and seal <<>>; the i-th byte *)
(*     of an AES-GCM output has v = i and seal = <<key, iv, aad, pt>>      *)
(*     (the values of the bytes that went into it), and x is the XOR mask  *)
(*     applied to it afterwards (0 when untouched);                        *)
(*   - a base64 string is a sequence of 4-character groups, each carrying  *)
(*     up to 3 bytes;                                                      *)
(*   - the platform primitives (ECDH, HKDF, PBKDF2, AES-GCM) are ideal:    *)
(*     ECDH is Diffie-Hellman in a small prime group, the KDFs are         *)
(*     injective terms, AES-GCM opens exactly what it sealed.              *)
(***************************************************************************)
EXTENDS Integers, Sequences, FiniteSets, TLC

VARIABLES now, ids, rec, out, sess, pend, wire, store, used, calls, client, net, auth

vars == <<now, ids, rec, out, sess, pend, wire, store, used, calls, client, net, auth>>

(* ------------------------------ bounds --------------------------------- *)

\* private scalars the key generator may draw
NumScalars == 3
\* length of the raw public key encoding (65 for P-256; only > 8 matters)
RawKeyLen == 10
\* number of distinct values the random source returns for one request
NumRandom == 2
\* largest value of the clock
MaxClock == 1
\* number of encryptions the nonce log follows
MaxEncryptions == 2
\* largest length of the arrays given to the comparisons
MaxCompareLen == 3

\* longest sender or recipient id given to createAAD alone
MaxIdLen == 2

\* sockets one client creates, timers it starts, send() calls it receives
MaxSockets == 3

MaxTimers == 2

MaxSends == 4

\* largest configured maxReconnectAttempts
MaxAttempts == 2

\* the queue limit of queueMessage, 100 in the program
QueueLimit == 2

\* send() calls where the connection is followed, sockets and timers where
\* the queue is followed
MaxLifecycleSends == 1

MaxQueueSockets == 2

MaxQueueTimers == 1

(* ----------------------------- constants ------------------------------- *)

SALT_LENGTH == 32
IV_LENGTH == 12
KEY_SIZE == 32
\* tagLength: 128 bits
TAG_BYTES == 16
\* the Diffie-Hellman group standing for the curve P-256
GroupP == 23
GroupG == 5

(* ------------------------------ helpers -------------------------------- *)

Min(a, b) == IF a < b THEN a ELSE b

Undefined == [undef |-> TRUE]

None == [op |-> "none"]

Ok(v) == [ok |-> TRUE, err |-> "", val |-> v]

Fail(e) == [ok |-> FALSE, err |-> e, val |-> <<>>]

RECURSIVE Flatten(_)
Flatten(ss) == IF ss = <<>> THEN <<>> ELSE Head(ss) \o Flatten(Tail(ss))

\* String.prototype.slice / substring / Uint8Array.prototype.slice for 0 <= a <= b
Slice(s, a, b) == SubSeq(s, a + 1, Min(b, Len(s)))

SliceFrom(s, a) == SubSeq(s, a + 1, Len(s))

Byte(n) == [v |-> n, seal |-> <<>>, x |-> 0]

Bytes(ns) == [i \in 1..Len(ns) |-> Byte(ns[i])]

\* the values of a byte sequence; a byte of cipher output, whose value is
\* not known, counts as 256
Vals(bs) == [i \in 1..Len(bs) |-> IF bs[i].seal = <<>> THEN bs[i].v ELSE 256]

\* a Uint8Array view: its underlying buffer, byteOffset and length
View(buf, off, len) == [buf |-> buf, off |-> off, len |-> len]

\* new Uint8Array(buffer) / a freshly allocated array: the view covers its buffer
Whole(bs) == View(bs, 0, Len(bs))

ViewBytes(u) == SubSeq(u.buf, u.off + 1, u.off + u.len)

(* ------------------------- encoding utilities -------------------------- *)

\* one 4-character group of a base64 string
Quantum(bs) == [ok |-> TRUE, b |-> bs]

BadQuantum == [ok |-> FALSE, b |-> <<>>]

RECURSIVE arrayBufferToBase64(_)
arrayBufferToBase64(buffer) ==
  IF buffer = <<>> THEN <<>>
  ELSE <<Quantum(Slice(buffer, 0, 3))>> \o arrayBufferToBase64(SliceFrom(buffer, Min(3, Len(buffer))))

\* atob accepts a string of complete groups, only the last one padded
atobValid(base64) ==
  \A i \in 1..Len(base64) :
    /\ base64[i].ok
    /\ Len(base64[i].b) \in 1..3
    /\ (i < Len(base64) => Len(base64[i].b) = 3)

base64ToArrayBuffer(base64) ==
  IF atobValid(base64)
  THEN Ok(Flatten([i \in 1..Len(base64) |-> base64[i].b]))
  ELSE Fail("InvalidCharacterError")

HexChar(d) == IF d < 10 THEN 48 + d ELSE 97 + (d - 10)

\* Number.prototype.toString(16) of a byte
ToString16(n) == IF n < 16 THEN <<HexChar(n)>> ELSE <<HexChar(n \div 16), HexChar(n % 16)>>

PadStart2(s) == IF Len(s) < 2 THEN <<48>> \o s ELSE s

arrayBufferToHexNoPad(buffer) == Flatten([i \in 1..Len(buffer) |-> ToString16(buffer[i].v)])

arrayBufferToHex(buffer) == Flatten([i \in 1..Len(buffer) |-> PadStart2(ToString16(buffer[i].v))])

toUpperCase(s) == [i \in 1..Len(s) |-> IF s[i] \in 97..122 THEN s[i] - 32 ELSE s[i]]

generateFingerprint(publicKey) ==
  LET hex == arrayBufferToHex(publicKey)
      shortened == toUpperCase(Slice(hex, 0, 16))
  IN  Slice(shortened, 0, 4) \o <<45>> \o Slice(shortened, 4, 8) \o <<45>>
        \o Slice(shortened, 8, 12) \o <<45>> \o Slice(shortened, 12, 16)

\* the < operator on two strings: lexicographic order on code units
RECURSIVE StrLess(_, _)
StrLess(a, b) ==
  IF b = <<>> THEN FALSE
  ELSE IF a = <<>> THEN TRUE
  ELSE IF Head(a) # Head(b) THEN Head(a) < Head(b)
  ELSE StrLess(Tail(a), Tail(b))

\* decimal digits of a non-negative number, as template literals print it
RECURSIVE NumToStr(_)
NumToStr(n) == IF n < 10 THEN <<48 + n>> ELSE NumToStr(n \div 10) \o <<48 + (n % 10)>>

IsHigh(c) == c \in 55296..56319

IsLow(c) == c \in 56320..57343

\* the code points of a string: a surrogate pair is one code point, a lone
\* surrogate is replaced by U+FFFD
RECURSIVE ToScalars(_)
ToScalars(s) ==
  IF s = <<>> THEN <<>>
  ELSE IF IsHigh(s[1]) /\ Len(s) >= 2 /\ IsLow(s[2])
       THEN <<65536 + (s[1] - 55296) * 1024 + (s[2] - 56320)>> \o ToScalars(SliceFrom(s, 2))
  ELSE IF IsHigh(s[1]) \/ IsLow(s[1]) THEN <<65533>> \o ToScalars(Tail(s))
  ELSE <<s[1]>> \o ToScalars(Tail(s))

Utf8(c) ==
  IF c < 128 THEN <<c>>
  ELSE IF c < 2048 THEN <<192 + (c \div 64), 128 + (c % 64)>>
  ELSE IF c < 65536 THEN <<224 + (c \div 4096), 128 + ((c \div 64) % 64), 128 + (c % 64)>>
  ELSE <<240 + (c \div 262144), 128 + ((c \div 4096) % 64), 128 + ((c \div 64) % 64), 128 + (c % 64)>>

\* new TextEncoder().encode(s)
TextEncode(s) == LET cs == ToScalars(s) IN Bytes(Flatten([i \in 1..Len(cs) |-> Utf8(cs[i])]))

IsCont(b) == b \in 128..191

\* the code points of a byte sequence; an ill-formed byte yields U+FFFD
RECURSIVE FromUtf8(_)
FromUtf8(b) ==
  IF b = <<>> THEN <<>>
  ELSE IF b[1] < 128 THEN <<b[1]>> \o FromUtf8(Tail(b))
  ELSE IF b[1] \in 194..223 /\ Len(b) >= 2 /\ IsCont(b[2])
       THEN <<(b[1] - 192) * 64 + (b[2] - 128)>> \o FromUtf8(SliceFrom(b, 2))
  ELSE IF /\ b[1] \in 224..239 /\ Len(b) >= 3 /\ IsCont(b[2]) /\ IsCont(b[3])
          /\ (b[1] = 224 => b[2] >= 160) /\ (b[1] = 237 => b[2] <= 159)
       THEN <<(b[1] - 224) * 4096 + (b[2] - 128) * 64 + (b[3] - 128)>> \o FromUtf8(SliceFrom(b, 3))
  ELSE IF /\ b[1] \in 240..244 /\ Len(b) >= 4 /\ IsCont(b[2]) /\ IsCont(b[3]) /\ IsCont(b[4])
          /\ (b[1] = 240 => b[2] >= 144) /\ (b[1] = 244 => b[2] <= 143)
       THEN <<(b[1] - 240) * 262144 + (b[2] - 128) * 4096 + (b[3] - 128) * 64 + (b[4] - 128)>>
              \o FromUtf8(SliceFrom(b, 4))
  ELSE <<65533>> \o FromUtf8(Tail(b))

ToUnits(c) == IF c < 65536 THEN <<c>> ELSE <<55296 + ((c - 65536) \div 1024), 56320 + ((c - 65536) % 1024)>>

\* new TextDecoder().decode(bytes): utf-8, not fatal, ignoreBOM false, so a
\* leading U+FEFF is removed from the output
TextDecode(bytes) ==
  LET cs == FromUtf8([i \in 1..Len(bytes) |-> bytes[i].v])
      kept == IF cs # <<>> /\ cs[1] = 65279 THEN Tail(cs) ELSE cs
  IN  Flatten([i \in 1..Len(kept) |-> ToUnits(kept[i])])

generateRandomBytesZero(length, r) == Whole([i \in 1..length |-> Byte(0)])

\* crypto.getRandomValues on a fresh Uint8Array(length): the r-th possible draw
generateRandomBytes(length, r) == Whole([i \in 1..length |-> Byte(r)])


\* a ^ b and a | b on non-negative integers
RECURSIVE BitXor(_, _)
BitXor(a, b) ==
  IF a = 0 THEN b ELSE IF b = 0 THEN a
  ELSE (((a % 2) + (b % 2)) % 2) + 2 * BitXor(a \div 2, b \div 2)

RECURSIVE BitOr(_, _)
BitOr(a, b) ==
  IF a = 0 THEN b ELSE IF b = 0 THEN a
  ELSE (IF (a % 2) + (b % 2) > 0 THEN 1 ELSE 0) + 2 * BitOr(a \div 2, b \div 2)

\* the loop of compareArrayBuffers from index i on, n iterations so far
RECURSIVE CompareLoop(_, _, _, _)
CompareLoop(aView, bView, i, n) ==
  IF ~(i < Len(aView)) THEN [value |-> TRUE, iterations |-> n]
  ELSE IF aView[i + 1].v # bView[i + 1].v THEN [value |-> FALSE, iterations |-> n + 1]
  ELSE CompareLoop(aView, bView, i + 1, n + 1)

\* a and b are the bytes of the two ArrayBuffers
compareArrayBuffers(a, b) ==
  IF Len(a) # Len(b) THEN [value |-> FALSE, iterations |-> 0]
  ELSE CompareLoop(a, b, 0, 0)

\* the loop of secureCompare from index i on, n iterations so far
RECURSIVE SecureLoop(_, _, _, _, _)
SecureLoop(a, b, i, result, n) ==
  IF ~(i < a.len) THEN [value |-> result = 0, iterations |-> n]
  ELSE SecureLoop(a, b, i + 1,
                  BitOr(result, BitXor(ViewBytes(a)[i + 1].v, ViewBytes(b)[i + 1].v)), n + 1)

secureCompareEarlyExit(a, b) ==
  IF a.len # b.len THEN [value |-> FALSE, iterations |-> 0]
  ELSE CompareLoop(ViewBytes(a), ViewBytes(b), 0, 0)

\* a and b are Uint8Arrays; the result and the number of loop iterations
secureCompare(a, b) ==
  IF a.len # b.len THEN [value |-> FALSE, iterations |-> 0]
  ELSE SecureLoop(a, b, 0, 0, 0)

(* -------------------------- platform primitives ------------------------ *)

RECURSIVE ModExp(_, _)
ModExp(b, e) == IF e = 0 THEN 1 ELSE (b * ModExp(b, e - 1)) % GroupP

Scalars == 1..NumScalars

GroupElems == 1..(GroupP - 1)

\* the public point of private scalar d
PublicOf(d) == ModExp(GroupG, d)

\* exportKey('raw', publicKey): 0x04 followed by the coordinates; two points
\* can agree on their leading bytes
PointRaw(y) ==
  Bytes([i \in 1..RawKeyLen |->
           IF i = 1 THEN 4
           ELSE IF i = 2 THEN 160 + (y % 4)
           ELSE IF i <= 8 THEN 17 * i
           ELSE (y * (i - 8)) % 256])

PublicKeyHandle(y) == [type |-> "public", y |-> y]

PrivateKeyHandle(d) == [type |-> "private", d |-> d]

\* importKey('raw', bytes, ECDH P-256): rejects what is not a point encoding
ImportRaw(bytes) ==
  IF \E y \in GroupElems : bytes = PointRaw(y)
  THEN Ok(PublicKeyHandle(CHOOSE y \in GroupElems : bytes = PointRaw(y)))
  ELSE Fail("DataError")

\* exportKey('jwk', privateKey): the scalar and the public point
ExportJwk(privateKey) == [d |-> privateKey.d, y |-> PublicOf(privateKey.d)]

\* importKey('jwk', jwk, ECDH P-256): rejects a scalar that does not match the point
ImportJwk(jwk) ==
  IF jwk.d \in 1..(GroupP - 2) /\ jwk.y = PublicOf(jwk.d)
  THEN Ok(PrivateKeyHandle(jwk.d))
  ELSE Fail("DataError")

\* JSON.stringify of a private JWK: {d,y} in decimal
JsonStringify(jwk) == <<123>> \o NumToStr(jwk.d) \o <<44>> \o NumToStr(jwk.y) \o <<125>>

IsDigits(s) == s # <<>> /\ \A i \in 1..Len(s) : s[i] \in 48..57

RECURSIVE StrToNum(_)
StrToNum(s) == IF s = <<>> THEN 0 ELSE StrToNum(SubSeq(s, 1, Len(s) - 1)) * 10 + (s[Len(s)] - 48)

\* JSON.parse of such a text
JsonParse(text) ==
  LET commas == {i \in 1..Len(text) : text[i] = 44}
  IN  IF /\ Len(text) >= 5 /\ text[1] = 123 /\ text[Len(text)] = 125
         /\ Cardinality(commas) = 1
         /\ LET c == CHOOSE i \in commas : TRUE
            IN  IsDigits(SubSeq(text, 2, c - 1)) /\ IsDigits(SubSeq(text, c + 1, Len(text) - 1))
      THEN LET c == CHOOSE i \in commas : TRUE
           IN  Ok([d |-> StrToNum(SubSeq(text, 2, c - 1)),
                   y |-> StrToNum(SubSeq(text, c + 1, Len(text) - 1))])
      ELSE Fail("SyntaxError")

\* the bytes deriveBits returns for a group element
SecretBytes(z) == Bytes([i \in 1..KEY_SIZE |-> (z * i) % 256])

SecretKey(kdf, ikm, salt, info) ==
  [type |-> "secret", kdf |-> kdf, ikm |-> Vals(ikm), salt |-> Vals(salt), info |-> Vals(info)]

\* crypto.subtle.encrypt AES-GCM: cipher output as long as the data, then the tag
AesGcmEncrypt(key, iv, aad, data) ==
  [i \in 1..(Len(data) + TAG_BYTES) |->
     [v |-> i, seal |-> <<key, Vals(iv), Vals(aad), Vals(data)>>, x |-> 0]]

\* crypto.subtle.decrypt AES-GCM: opens only an untouched output sealed with
\* the same key, iv and additional data
AesGcmDecrypt(key, iv, aad, data) ==
  IF Len(data) < TAG_BYTES THEN Fail("OperationError")
  ELSE IF data[1].seal = <<>> THEN Fail("OperationError")
  ELSE LET pt == Bytes(data[1].seal[4])
       IN  IF data = AesGcmEncrypt(key, iv, aad, pt) THEN Ok(pt) ELSE Fail("OperationError")

(* --------------------- ECDH key exchange and HKDF ---------------------- *)

\* 'chit-chat-e2ee-v1'
HKDF_INFO == Whole(Bytes(<<99, 104, 105, 116, 45, 99, 104, 97, 116, 45, 101, 50, 101, 101, 45, 118, 49>>))

\* 'chit-chat-session-key-'
SessionKeyLabel == <<99, 104, 105, 116, 45, 99, 104, 97, 116, 45, 115, 101, 115, 115, 105, 111, 110, 45, 107, 101, 121, 45>>

deriveSharedSecretOwn(privateKey, publicKey) == SecretBytes(ModExp(PublicOf(privateKey.d), privateKey.d))

deriveSharedSecret(privateKey, publicKey) == SecretBytes(ModExp(publicKey.y, privateKey.d))

deriveSessionKey(sharedSecret, salt, info) ==
  LET hkdfSalt == IF salt # Undefined THEN salt.buf ELSE Bytes([i \in 1..KEY_SIZE |-> 0])
  IN  SecretKey("HKDF", sharedSecret, hkdfSalt, info.buf)

performKeyExchange(myKeyPair, theirPublicKey, salt) ==
  LET sharedSecret == deriveSharedSecret(myKeyPair.privateKey, theirPublicKey)
  IN  deriveSessionKey(sharedSecret, salt, HKDF_INFO)

deriveBidirectionalKeysSwapped(myKeyPair, theirPublicKey, myFingerprint, theirFingerprint) ==
  LET sharedSecret == deriveSharedSecret(myKeyPair.privateKey, theirPublicKey)
      iAmLower == StrLess(myFingerprint, theirFingerprint)
      info1 == Whole(TextEncode(SessionKeyLabel \o <<49>>))
      info2 == Whole(TextEncode(SessionKeyLabel \o <<50>>))
      key1 == deriveSessionKey(sharedSecret, Undefined, info1)
      key2 == deriveSessionKey(sharedSecret, Undefined, info2)
  IN  [sendKey |-> IF iAmLower THEN key2 ELSE key1,
       receiveKey |-> IF iAmLower THEN key1 ELSE key2]

deriveBidirectionalKeys(myKeyPair, theirPublicKey, myFingerprint, theirFingerprint) ==
  LET sharedSecret == deriveSharedSecret(myKeyPair.privateKey, theirPublicKey)
      iAmLower == StrLess(myFingerprint, theirFingerprint)
      info1 == Whole(TextEncode(SessionKeyLabel \o <<49>>))
      info2 == Whole(TextEncode(SessionKeyLabel \o <<50>>))
      key1 == deriveSessionKey(sharedSecret, Undefined, info1)
      key2 == deriveSessionKey(sharedSecret, Undefined, info2)
  IN  [sendKey |-> IF iAmLower THEN key1 ELSE key2,
       receiveKey |-> IF iAmLower THEN key2 ELSE key1]

(* ----------------------- identity key management ----------------------- *)

\* d is the scalar the platform key generator drew
generateIdentityKeyPair(d) ==
  LET publicKeyRaw == PointRaw(PublicOf(d))
  IN  [publicKey |-> PublicKeyHandle(PublicOf(d)),
       privateKey |-> PrivateKeyHandle(d),
       publicKeyRaw |-> publicKeyRaw,
       fingerprint |-> generateFingerprint(publicKeyRaw)]

exportKeyPairRawHex(keyPair) ==
  [publicKey |-> arrayBufferToBase64(PointRaw(keyPair.publicKey.y)),
   privateKey |-> JsonStringify(ExportJwk(keyPair.privateKey)),
   fingerprint |-> Slice(arrayBufferToHex(PointRaw(keyPair.publicKey.y)), 0, 16)]

exportKeyPair(keyPair) ==
  [publicKey |-> arrayBufferToBase64(PointRaw(keyPair.publicKey.y)),
   privateKey |-> JsonStringify(ExportJwk(keyPair.privateKey)),
   fingerprint |-> keyPair.fingerprint]

importKeyPair(exported) ==
  LET publicKeyRaw == base64ToArrayBuffer(exported.publicKey)
  IN  IF ~publicKeyRaw.ok THEN publicKeyRaw
      ELSE LET privateKeyJwk == JsonParse(exported.privateKey)
           IN  IF ~privateKeyJwk.ok THEN privateKeyJwk
               ELSE LET publicKey == ImportRaw(publicKeyRaw.val)
                    IN  IF ~publicKey.ok THEN publicKey
                        ELSE LET privateKey == ImportJwk(privateKeyJwk.val)
                             IN  IF ~privateKey.ok THEN privateKey
                                 ELSE Ok([publicKey |-> publicKey.val,
                                          privateKey |-> privateKey.val,
                                          publicKeyRaw |-> publicKeyRaw.val,
                                          fingerprint |-> exported.fingerprint])

importPublicKeyOrDefault(base64PublicKey) ==
  LET publicKeyRaw == base64ToArrayBuffer(base64PublicKey)
  IN  IF publicKeyRaw.ok /\ ImportRaw(publicKeyRaw.val).ok
      THEN ImportRaw(publicKeyRaw.val)
      ELSE Ok(PublicKeyHandle(PublicOf(1)))

importPublicKey(base64PublicKey) ==
  LET publicKeyRaw == base64ToArrayBuffer(base64PublicKey)
  IN  IF ~publicKeyRaw.ok THEN publicKeyRaw ELSE ImportRaw(publicKeyRaw.val)

derivePasswordKey(password, salt) ==
  SecretKey("PBKDF2", TextEncode(password), salt.buf, <<>>)

\* rs and ri are the draws of the random source for the salt and the iv
createKeyBackup(keyPair, password, rs, ri) ==
  LET salt == generateRandomBytes(SALT_LENGTH, rs)
      iv == generateRandomBytes(12, ri)
      passwordKey == derivePasswordKey(password, salt)
      privateKeyData == TextEncode(JsonStringify(ExportJwk(keyPair.privateKey)))
      encryptedPrivateKey == AesGcmEncrypt(passwordKey, ViewBytes(iv), <<>>, privateKeyData)
      publicKeyRaw == PointRaw(keyPair.publicKey.y)
  IN  [encryptedPrivateKey |-> arrayBufferToBase64(encryptedPrivateKey),
       salt |-> arrayBufferToBase64(salt.buf),
       iv |-> arrayBufferToBase64(iv.buf),
       publicKey |-> arrayBufferToBase64(publicKeyRaw),
       fingerprint |-> keyPair.fingerprint]

restoreKeyFromBackup(backup, password) ==
  LET salt == base64ToArrayBuffer(backup.salt)
      iv == base64ToArrayBuffer(backup.iv)
      encryptedPrivateKey == base64ToArrayBuffer(backup.encryptedPrivateKey)
  IN  IF ~salt.ok THEN salt
      ELSE IF ~iv.ok THEN iv
      ELSE IF ~encryptedPrivateKey.ok THEN encryptedPrivateKey
      ELSE
        LET passwordKey == derivePasswordKey(password, Whole(salt.val))
            decryptedData == AesGcmDecrypt(passwordKey, iv.val, <<>>, encryptedPrivateKey.val)
        IN  IF ~decryptedData.ok THEN decryptedData
            ELSE
              LET privateKeyJwk == JsonParse(TextDecode(decryptedData.val))
              IN  IF ~privateKeyJwk.ok THEN privateKeyJwk
                  ELSE
                    LET privateKey == ImportJwk(privateKeyJwk.val)
                    IN  IF ~privateKey.ok THEN privateKey
                        ELSE
                          LET publicKeyRaw == base64ToArrayBuffer(backup.publicKey)
                          IN  IF ~publicKeyRaw.ok THEN publicKeyRaw
                              ELSE
                                LET publicKey == ImportRaw(publicKeyRaw.val)
                                IN  IF ~publicKey.ok THEN publicKey
                                    ELSE Ok([publicKey |-> publicKey.val,
                                             privateKey |-> privateKey.val,
                                             publicKeyRaw |-> publicKeyRaw.val,
                                             fingerprint |-> backup.fingerprint])

(* ------------------------- AES-256-GCM messages ------------------------ *)

concatUint8Arrays(a, b) == Whole(ViewBytes(a) \o ViewBytes(b))

\* `if (additionalData)` is true for every Uint8Array, the empty one included;
\* the cipher authenticates the bytes of the view, none when it is absent
AdditionalData(additionalData) ==
  IF additionalData # Undefined THEN ViewBytes(additionalData) ELSE <<>>

encryptMessageNoAad(sessionKey, plaintext, additionalData, r, clock) ==
  LET iv == generateRandomBytes(IV_LENGTH, r)
      plaintextBytes == TextEncode(plaintext)
      ciphertextBuffer == AesGcmEncrypt(sessionKey, ViewBytes(iv), <<>>, plaintextBytes)
      combined == concatUint8Arrays(iv, Whole(ciphertextBuffer))
  IN  [ciphertext |-> arrayBufferToBase64(combined.buf), timestamp |-> clock]

\* r is the draw of the random source, clock the value Date.now() returns
\* once the encryption has completed
encryptMessage(sessionKey, plaintext, additionalData, r, clock) ==
  LET iv == generateRandomBytes(IV_LENGTH, r)
      plaintextBytes == TextEncode(plaintext)
      ciphertextBuffer == AesGcmEncrypt(sessionKey, ViewBytes(iv), AdditionalData(additionalData), plaintextBytes)
      combined == concatUint8Arrays(iv, Whole(ciphertextBuffer))
  IN  [ciphertext |-> arrayBufferToBase64(combined.buf), timestamp |-> clock]

decryptMessage(sessionKey, encryptedMessage, additionalData) ==
  LET combined == base64ToArrayBuffer(encryptedMessage.ciphertext)
  IN  IF ~combined.ok THEN combined
      ELSE
        LET iv == Slice(combined.val, 0, IV_LENGTH)
            ciphertext == SliceFrom(combined.val, Min(IV_LENGTH, Len(combined.val)))
            plaintextBuffer == AesGcmDecrypt(sessionKey, iv, AdditionalData(additionalData), ciphertext)
        IN  IF ~plaintextBuffer.ok THEN plaintextBuffer
            ELSE Ok([plaintext |-> TextDecode(plaintextBuffer.val),
                     timestamp |-> encryptedMessage.timestamp])

createAAD(senderId, recipientId, timestamp) ==
  Whole(TextEncode(senderId \o <<58>> \o recipientId \o <<58>> \o NumToStr(timestamp)))

encryptBinaryDataNonceLast(sessionKey, data, r) ==
  LET iv == generateRandomBytes(IV_LENGTH, r)
      ciphertext == AesGcmEncrypt(sessionKey, ViewBytes(iv), <<>>, data)
      combined == concatUint8Arrays(Whole(ciphertext), iv)
  IN  combined.buf

\* r is the draw of the random source
encryptBinaryData(sessionKey, data, r) ==
  LET iv == generateRandomBytes(IV_LENGTH, r)
      ciphertext == AesGcmEncrypt(sessionKey, ViewBytes(iv), <<>>, data)
      combined == concatUint8Arrays(iv, Whole(ciphertext))
  IN  combined.buf

decryptBinaryData(sessionKey, encryptedData) ==
  LET combined == Whole(encryptedData)
      iv == Slice(ViewBytes(combined), 0, IV_LENGTH)
      ciphertext == SliceFrom(ViewBytes(combined), Min(IV_LENGTH, combined.len))
  IN  AesGcmDecrypt(sessionKey, iv, <<>>, ciphertext)

(* ---------------------------- session facade --------------------------- *)

\* clock is the value of Date.now() during the call
establishSecureSession(myKeyPair, theirPublicKeyBase64, theirFingerprint, clock) ==
  LET theirPublicKey == importPublicKey(theirPublicKeyBase64)
  IN  IF ~theirPublicKey.ok THEN theirPublicKey
      ELSE
        LET keys == deriveBidirectionalKeys(myKeyPair, theirPublicKey.val,
                                            myKeyPair.fingerprint, theirFingerprint)
        IN  Ok([sessionId |-> myKeyPair.fingerprint \o <<45>> \o theirFingerprint \o <<45>> \o NumToStr(clock),
                sendKey |-> keys.sendKey,
                receiveKey |-> keys.receiveKey,
                theirFingerprint |-> theirFingerprint,
                createdAt |-> clock])

\* timestamp is Date.now() when the call starts, clock is Date.now() when
\* encryptMessage stamps its result
encryptSessionMessage(session, senderId, recipientId, message, timestamp, r, clock) ==
  LET aad == createAAD(senderId, recipientId, timestamp)
      encrypted == encryptMessage(session.sendKey, message, aad, r, clock)
  IN  [sessionId |-> session.sessionId,
       senderId |-> senderId,
       recipientId |-> recipientId,
       encrypted |-> encrypted]

decryptSessionMessageSendKey(session, payload) ==
  LET aad == createAAD(payload.senderId, payload.recipientId, payload.encrypted.timestamp)
  IN  decryptMessage(session.sendKey, payload.encrypted, aad)

decryptSessionMessage(session, payload) ==
  LET aad == createAAD(payload.senderId, payload.recipientId, payload.encrypted.timestamp)
  IN  decryptMessage(session.receiveKey, payload.encrypted, aad)

(* ------------------------------ inputs --------------------------------- *)

Parties == {"A", "B"}

\* the identity of this device; the other party is its peer
Self == "A"

Peer == "B"

\* "p", a lone high surrogate, a lone low surrogate
Passwords == {<<112>>, <<55296>>, <<56320>>}

\* absent, 32 fresh bytes, and the same 32 bytes seen through a subarray
Salts == {Undefined,
          Whole(Bytes([i \in 1..SALT_LENGTH |-> 1])),
          View(Bytes([i \in 1..(SALT_LENGTH + 1) |-> 1]), 1, SALT_LENGTH)}

BackupFields == {"encryptedPrivateKey", "salt", "iv", "publicKey"}

DamageKinds == {"truncate", "malform", "flip"}

\* bit 7 of a byte inverted
FlipCell(c) ==
  IF c.seal = <<>> THEN [c EXCEPT !.v = (c.v + 128) % 256] ELSE [c EXCEPT !.x = (c.x + 128) % 256]

\* the base64 text of the same bytes with one bit of byte j inverted
FlipBase64(base64, j) ==
  LET bs == Flatten([i \in 1..Len(base64) |-> base64[i].b])
  IN  arrayBufferToBase64([i \in 1..Len(bs) |-> IF i = j THEN FlipCell(bs[i]) ELSE bs[i]])

\* what a store or a relay can do to an encoded field
Damaged(base64, kind, j) ==
  CASE kind = "truncate" -> SubSeq(base64, 1, Len(base64) - 1)
    [] kind = "malform" -> <<BadQuantum>> \o Tail(base64)
    [] kind = "flip" -> FlipBase64(base64, j)

NoSessions == [p \in Parties |-> None]

\* the IndexedDB key store (the record under id 'identity'), the user record
\* of localStorage and the tokens of sessionStorage, all absent
EmptyStore == [keys |-> None, user |-> None, tokens |-> None]

\* the two calls that may run concurrently on one session
Calls == {1, 2}

NoCalls == [c \in Calls |-> None]

\* null where a string is expected: no string holds a negative code unit
NullString == <<-1>>

\* the platform before any socket or timer was created
EmptyNet == [sockets |-> <<>>, timers |-> <<>>, handed |-> <<>>, sends |-> 0]

initialState ==
  [user |-> None, token |-> NullString, isAuthenticated |-> FALSE, isLoading |-> TRUE,
   error |-> NullString]

(* ------------------- identity keys: the state machine ------------------ *)

\* no identity, no session, nothing stored or in transit
InitCrypto ==
  /\ now = 0
  /\ ids = [p \in Parties |-> None]
  /\ rec = None
  /\ out = None
  /\ sess = NoSessions
  /\ pend = None
  /\ wire = None
  /\ store = EmptyStore
  /\ used = <<>>
  /\ calls = NoCalls

\* no WebSocket client was created, the reducer state is the initial one
InitKeys ==
  /\ InitCrypto
  /\ client = None
  /\ net = EmptyNet
  /\ auth = initialState

GenerateIdentity(p) ==
  /\ ids[p] = None
  /\ \E d \in Scalars : ids' = [ids EXCEPT ![p] = generateIdentityKeyPair(d)]
  /\ UNCHANGED <<now, rec, out, sess, pend, wire, store, used, calls, client, net, auth>>

\* each behaviour follows one exported or backed-up record, or one key
\* agreement, from its creation on
Idle == rec = None /\ out = None

ExportKeyPair(p) ==
  /\ Idle
  /\ ids[p] # None
  /\ rec' = [kind |-> "exported", of |-> ids[p], pw |-> <<>>, damage |-> "none",
             val |-> exportKeyPair(ids[p])]
  /\ out' = None
  /\ UNCHANGED <<now, ids, sess, pend, wire, store, used, calls, client, net, auth>>

ImportKeyPair ==
  /\ rec # None
  /\ rec.kind = "exported"
  /\ out' = [op |-> "importKeyPair", damage |-> rec.damage,
             res |-> importKeyPair(rec.val)]
  /\ UNCHANGED <<now, ids, rec, sess, pend, wire, store, used, calls, client, net, auth>>

CreateKeyBackup(p) ==
  /\ Idle
  /\ ids[p] # None
  /\ \E pw \in Passwords, rs \in 1..NumRandom, ri \in 1..NumRandom :
       rec' = [kind |-> "backup", of |-> ids[p], pw |-> pw, damage |-> "none",
               val |-> createKeyBackup(ids[p], pw, rs, ri)]
  /\ out' = None
  /\ UNCHANGED <<now, ids, sess, pend, wire, store, used, calls, client, net, auth>>

\* the stored backup record is truncated, garbled or tampered with
DamageBackup ==
  /\ rec # None
  /\ rec.kind = "backup"
  /\ rec.damage = "none"
  /\ \E f \in BackupFields, k \in DamageKinds :
       rec' = [rec EXCEPT !.damage = k, !.val[f] = Damaged(rec.val[f], k, 1)]
  /\ out' = None
  /\ UNCHANGED <<now, ids, sess, pend, wire, store, used, calls, client, net, auth>>

\* the publicKey or the fingerprint field of the exported or backed-up record
\* is replaced by that of another identity
SubstituteField ==
  /\ rec # None
  /\ rec.kind \in {"exported", "backup"}
  /\ rec.damage = "none"
  /\ \E f \in {"publicKey", "fingerprint"}, d \in Scalars :
       LET other == generateIdentityKeyPair(d)
       IN  /\ other.fingerprint # rec.val.fingerprint
           /\ rec' = [rec EXCEPT !.damage = "substitute",
                                 !.val[f] = IF f = "fingerprint" THEN other.fingerprint
                                            ELSE exportKeyPair(other).publicKey]
  /\ out' = None
  /\ UNCHANGED <<now, ids, sess, pend, wire, store, used, calls, client, net, auth>>

RestoreKeyFromBackup ==
  /\ rec # None
  /\ rec.kind = "backup"
  /\ \E pw \in Passwords :
       out' = [op |-> "restoreKeyFromBackup", damage |-> rec.damage, tried |-> pw,
               res |-> restoreKeyFromBackup(rec.val, pw)]
  /\ UNCHANGED <<now, ids, rec, sess, pend, wire, store, used, calls, client, net, auth>>

PerformKeyExchange(a, b) ==
  /\ Idle
  /\ a # b
  /\ ids[a] # None
  /\ ids[b] # None
  /\ \E salt \in Salts :
       out' = [op |-> "performKeyExchange", salt |-> salt,
               sa |-> deriveSharedSecret(ids[a].privateKey, ids[b].publicKey),
               sb |-> deriveSharedSecret(ids[b].privateKey, ids[a].publicKey),
               ka |-> performKeyExchange(ids[a], ids[b].publicKey, salt),
               kb |-> performKeyExchange(ids[b], ids[a].publicKey, salt)]
  /\ rec' = None
  /\ UNCHANGED <<now, ids, sess, pend, wire, store, used, calls, client, net, auth>>

DeriveBidirectionalKeys(a, b) ==
  /\ Idle
  /\ a # b
  /\ ids[a] # None
  /\ ids[b] # None
  /\ out' = [op |-> "deriveBidirectionalKeys",
             fpa |-> ids[a].fingerprint, fpb |-> ids[b].fingerprint,
             a |-> deriveBidirectionalKeys(ids[a], ids[b].publicKey, ids[a].fingerprint, ids[b].fingerprint),
             b |-> deriveBidirectionalKeys(ids[b], ids[a].publicKey, ids[b].fingerprint, ids[a].fingerprint)]
  /\ rec' = None
  /\ UNCHANGED <<now, ids, sess, pend, wire, store, used, calls, client, net, auth>>

\* what the transport can deliver as a peer's public key: the exported key
\* itself, a damaged copy of it, or nothing
PeerKeyKinds == {"none", "empty"} \cup DamageKinds

PeerKey(keyPair, kind, j) ==
  LET base64 == exportKeyPair(keyPair).publicKey
  IN  IF kind = "none" THEN base64
      ELSE IF kind = "empty" THEN <<>>
      ELSE Damaged(base64, kind, j)

\* the bytes of a raw key whose bit may be flipped: format byte, first and last
\* coordinate byte
PeerKeyPositions == {1, 2, RawKeyLen}

ImportPublicKey(p) ==
  /\ Idle
  /\ ids[p] # None
  /\ \E kind \in PeerKeyKinds, j \in PeerKeyPositions :
       LET key == PeerKey(ids[p], kind, j)
       IN  out' = [op |-> "importPublicKey", key |-> key, res |-> importPublicKey(key)]
  /\ rec' = None
  /\ UNCHANGED <<now, ids, sess, pend, wire, store, used, calls, client, net, auth>>

\* a establishes a session from the key and fingerprint delivered for b
EstablishFromKey(a, b) ==
  /\ Idle
  /\ a # b
  /\ ids[a] # None
  /\ ids[b] # None
  /\ \E kind \in PeerKeyKinds, j \in PeerKeyPositions :
       LET key == PeerKey(ids[b], kind, j)
       IN  out' = [op |-> "establishSecureSession", key |-> key,
                   res |-> establishSecureSession(ids[a], key, ids[b].fingerprint, now)]
  /\ rec' = None
  /\ UNCHANGED <<now, ids, sess, pend, wire, store, used, calls, client, net, auth>>

NextKeys ==
  \/ \E p \in Parties : GenerateIdentity(p)
  \/ ExportKeyPair(Self)
  \/ ImportKeyPair
  \/ CreateKeyBackup(Self)
  \/ DamageBackup
  \/ SubstituteField
  \/ RestoreKeyFromBackup
  \/ \E a \in Parties, b \in Parties : PerformKeyExchange(a, b)
  \/ \E a \in Parties, b \in Parties : DeriveBidirectionalKeys(a, b)
  \/ \E p \in Parties : ImportPublicKey(p)
  \/ \E a \in Parties, b \in Parties : EstablishFromKey(a, b)

SpecKeys == InitKeys /\ [][NextKeys]_vars

(* ------------------------- properties: identity keys ------------------- *)

UpperHex(d) == IF d < 10 THEN 48 + d ELSE 65 + (d - 10)

\* index in XXXX-XXXX-XXXX-XXXX of hex digit n (0..15)
FpIndex(n) == n + (n \div 4) + 1

IsFingerprintOf(fp, raw) ==
  /\ Len(fp) = 19
  /\ \A i \in {5, 10, 15} : fp[i] = 45
  /\ \A i \in (1..19) \ {5, 10, 15} : fp[i] \in (48..57) \cup (65..70)
  /\ \A k \in 0..7 :
       /\ fp[FpIndex(2 * k)] = UpperHex(raw[k + 1].v \div 16)
       /\ fp[FpIndex(2 * k + 1)] = UpperHex(raw[k + 1].v % 16)

\* C2: deriveBidirectionalKeys is symmetric for every pair of fingerprints,
\* equal ones included: A's sendKey is B's receiveKey and A's receiveKey is
\* B's sendKey.
C2_Symmetric ==
  out.op = "deriveBidirectionalKeys" =>
    /\ out.a.sendKey = out.b.receiveKey
    /\ out.a.receiveKey = out.b.sendKey

\* C5: restoring an intact backup with the password it was created with
\* returns a key pair with the original fingerprint, and with any other
\* password it fails with the authentication error.
C5_BackupRoundTrip ==
  (out.op = "restoreKeyFromBackup" /\ out.damage = "none") =>
    IF out.tried = rec.pw
    THEN out.res.ok /\ out.res.val.fingerprint = rec.of.fingerprint
    ELSE ~out.res.ok /\ out.res.err = "OperationError"

\* C6: every failure of restoreKeyFromBackup or decryptMessage is reported
\* with the one error a wrong password or key gives, whatever its cause.
C6_SameError ==
  (out.op \in {"restoreKeyFromBackup", "decryptMessage"} /\ ~out.res.ok) =>
    out.res.err = "OperationError"

\* C7: importing the export of a generated key pair gives a key pair with the
\* same fingerprint whose private key agrees with every peer on the same
\* shared secret as the original.
C7_ExportImport ==
  (out.op = "importKeyPair" /\ out.damage = "none") =>
    /\ out.res.ok
    /\ out.res.val.fingerprint = rec.of.fingerprint
    /\ \A d \in Scalars :
         deriveSharedSecret(out.res.val.privateKey, PublicKeyHandle(PublicOf(d)))
           = deriveSharedSecret(rec.of.privateKey, PublicKeyHandle(PublicOf(d)))

C7_Witness ==
  /\ out.op = "importKeyPair"
  /\ out.damage = "none"
  /\ out.res.ok
  /\ ids["B"] # None

\* C8: two generated identities derive the same shared secret from each
\* other's public key, and performKeyExchange gives both the same session key
\* for the same salt.
C8_KeyAgreement ==
  out.op = "performKeyExchange" =>
    /\ out.sa = out.sb
    /\ out.ka = out.kb

C8_Witness ==
  /\ out.op = "performKeyExchange"
  /\ out.salt # Undefined
  /\ ids["A"].privateKey # ids["B"].privateKey

\* C9: the fingerprint of a generated identity is the upper-case hex of the
\* first 8 bytes of its raw public key in four hyphen-separated blocks of 4,
\* and generateFingerprint gives the same string again for the same bytes.
C9_Fingerprint ==
  \A p \in Parties :
    ids[p] # None =>
      /\ IsFingerprintOf(ids[p].fingerprint, ids[p].publicKeyRaw)
      /\ generateFingerprint(ids[p].publicKeyRaw) = ids[p].fingerprint

C9_Witness ==
  /\ ids["A"] # None
  /\ ids["B"] # None
  /\ ids["A"].publicKeyRaw[1].v < 16

\* s sorts before t: at the first position where they differ s has the smaller
\* code unit, or s is a proper prefix of t
LexLower(s, t) ==
  \/ \E i \in 1..Min(Len(s), Len(t)) :
       /\ s[i] < t[i]
       /\ \A j \in 1..(i - 1) : s[j] = t[j]
  \/ (Len(s) < Len(t) /\ \A j \in 1..Len(s) : s[j] = t[j])

\* the key derived from the shared secret of the two identities with the
\* label 'chit-chat-session-key-' followed by the digit
DirectionKey(digit) ==
  deriveSessionKey(deriveSharedSecret(ids[Self].privateKey, ids[Peer].publicKey), Undefined,
                   Whole(TextEncode(SessionKeyLabel \o <<digit>>)))

\* C16: the party whose fingerprint sorts lower sends with key-1 and
\* receives with key-2, the party whose fingerprint sorts higher sends with
\* key-2 and receives with key-1, and the two keys differ.
C16_TieBreak ==
  out.op = "deriveBidirectionalKeys" =>
    /\ DirectionKey(49) # DirectionKey(50)
    /\ LexLower(out.fpa, out.fpb) =>
         /\ out.a.sendKey = DirectionKey(49) /\ out.a.receiveKey = DirectionKey(50)
         /\ out.b.sendKey = DirectionKey(50) /\ out.b.receiveKey = DirectionKey(49)
    /\ LexLower(out.fpb, out.fpa) =>
         /\ out.a.sendKey = DirectionKey(50) /\ out.a.receiveKey = DirectionKey(49)
         /\ out.b.sendKey = DirectionKey(49) /\ out.b.receiveKey = DirectionKey(50)

C16_Witness ==
  /\ out.op = "deriveBidirectionalKeys"
  /\ LexLower(out.fpb, out.fpa)

\* C20: every key pair that generateIdentityKeyPair, importKeyPair or
\* restoreKeyFromBackup returns, for every record they accept, has the
\* fingerprint of its raw public key.
C20_FingerprintOfKey ==
  /\ \A p \in Parties :
       ids[p] # None => ids[p].fingerprint = generateFingerprint(ids[p].publicKeyRaw)
  /\ (out.op \in {"importKeyPair", "restoreKeyFromBackup"} /\ out.res.ok) =>
       out.res.val.fingerprint = generateFingerprint(out.res.val.publicKeyRaw)

\* C21: every key pair restoreKeyFromBackup returns is the identity that was
\* backed up: its public key is the one of the decrypted private key, its raw
\* public key and its fingerprint are those of that identity, also when the
\* publicKey or fingerprint field of the record was altered.
C21_RestoredIdentity ==
  (out.op = "restoreKeyFromBackup" /\ out.res.ok) =>
    /\ out.res.val.publicKey.y = PublicOf(out.res.val.privateKey.d)
    /\ out.res.val.publicKeyRaw = rec.of.publicKeyRaw
    /\ out.res.val.fingerprint = rec.of.fingerprint

\* a base64 text that decodes to the raw encoding of a point
IsPointEncoding(base64) ==
  /\ atobValid(base64)
  /\ \E y \in GroupElems : Flatten([i \in 1..Len(base64) |-> base64[i].b]) = PointRaw(y)

\* C14: importPublicKey and establishSecureSession given a peer key that is
\* not a valid point encoding fail with an error and return no key handle
\* and no session.
C14_InvalidKeyRejected ==
  (out.op \in {"importPublicKey", "establishSecureSession"} /\ ~IsPointEncoding(out.key)) =>
    /\ ~out.res.ok
    /\ out.res.err \in {"DataError", "InvalidCharacterError"}
    /\ out.res.val = <<>>

C14_Witness ==
  /\ out.op = "establishSecureSession"
  /\ ~IsPointEncoding(out.key)
  /\ atobValid(out.key)
  /\ Len(out.key) = 4
  /\ ~out.res.ok

(* ------------------ message cipher: the state machine ------------------ *)

\* two session keys derived from different shared secrets
CipherKeys == {deriveSessionKey(SecretBytes(z), Undefined, HKDF_INFO) : z \in 1..2}

\* "", "a", U+FEFF "a", and U+1F510 (a surrogate pair, 4 bytes in UTF-8)
Plaintexts == {<<>>, <<97>>, <<65279, 97>>, <<55357, 56592>>}

\* omitted, empty, "x", "y"
AssociatedData == {Undefined, Whole(<<>>), Whole(Bytes(<<120>>)), Whole(Bytes(<<121>>))}

InitCipher == InitKeys

Tick ==
  /\ now < MaxClock
  /\ now' = now + 1
  /\ UNCHANGED <<ids, rec, out, sess, pend, wire, store, used, calls, client, net, auth>>

\* the model follows one message from its encryption to its decryption
EncryptMessage ==
  /\ rec = None
  /\ \E k \in CipherKeys, p \in Plaintexts, a \in AssociatedData, r \in 1..NumRandom :
       rec' = [kind |-> "message", key |-> k, pt |-> p, aad |-> a, damage |-> "none",
               val |-> encryptMessage(k, p, a, r, now)]
  /\ out' = None
  /\ UNCHANGED <<now, ids, sess, pend, wire, store, used, calls, client, net, auth>>

\* byte positions in nonce || cipher output || tag: first nonce byte, first
\* byte after the nonce, last tag byte
TamperPositions(p) == {1, IV_LENGTH + 1, IV_LENGTH + Len(TextEncode(p)) + TAG_BYTES}

\* the relay truncates, garbles or flips one bit of the encoded message
TamperMessage ==
  /\ rec # None
  /\ rec.kind = "message"
  /\ rec.damage = "none"
  /\ \E k \in DamageKinds, j \in TamperPositions(rec.pt) :
       rec' = [rec EXCEPT !.damage = k,
                          !.val.ciphertext = Damaged(rec.val.ciphertext, k, j)]
  /\ out' = None
  /\ UNCHANGED <<now, ids, sess, pend, wire, store, used, calls, client, net, auth>>

DecryptMessage ==
  /\ rec # None
  /\ rec.kind = "message"
  /\ \E k \in CipherKeys, a \in AssociatedData :
       out' = [op |-> "decryptMessage", damage |-> rec.damage,
               key |-> rec.key, aad |-> rec.aad, usedKey |-> k, usedAad |-> a,
               res |-> decryptMessage(k, rec.val, a)]
  /\ UNCHANGED <<now, ids, rec, sess, pend, wire, store, used, calls, client, net, auth>>

NextCipher ==
  \/ Tick
  \/ EncryptMessage
  \/ TamperMessage
  \/ DecryptMessage

SpecCipher == InitCipher /\ [][NextCipher]_vars

(* ------------------------ properties: message cipher ------------------- *)

\* C3: decrypting the output of encryptMessage with the same key and the same
\* associated data returns the plaintext and the timestamp of the message,
\* for every plaintext string.
C3_RoundTrip ==
  (/\ out.op = "decryptMessage" /\ out.damage = "none"
   /\ out.usedKey = out.key /\ out.usedAad = out.aad) =>
    /\ out.res.ok
    /\ out.res.val.plaintext = rec.pt
    /\ out.res.val.timestamp = rec.val.timestamp

\* C4 as stated: decryptMessage fails with the authentication error whenever
\* the associated data differs from the one used to encrypt (supplied at one
\* side and omitted at the other included), the key differs, or a bit of the
\* nonce, cipher output or tag was changed.
C4_Original ==
  (/\ out.op = "decryptMessage"
   /\ out.damage \in {"none", "flip"}
   /\ (out.usedAad # out.aad \/ out.usedKey # out.key \/ out.damage = "flip")) =>
    ~out.res.ok /\ out.res.err = "OperationError"

\* C4 amended: decryptMessage fails with the authentication error whenever
\* the associated data bytes differ from those used to encrypt, omitted
\* associated data counting as the empty byte string, or the key differs, or
\* a bit of the nonce, cipher output or tag was changed.
C4_Authenticated ==
  (/\ out.op = "decryptMessage"
   /\ out.damage \in {"none", "flip"}
   /\ \/ AdditionalData(out.usedAad) # AdditionalData(out.aad)
      \/ out.usedKey # out.key
      \/ out.damage = "flip") =>
    ~out.res.ok /\ out.res.err = "OperationError"

C4_Witness ==
  /\ out.op = "decryptMessage"
  /\ out.damage = "none"
  /\ out.usedKey = out.key
  /\ out.aad # Undefined
  /\ out.aad.len > 0
  /\ out.usedAad = Undefined
  /\ ~out.res.ok

(* ------------------ session facade: the state machine ------------------ *)

Other(p) == IF p = Self THEN Peer ELSE Self

\* "a" and "a:b"
SenderIds == {<<97>>, <<97, 58, 98>>}

\* "a" and "b:a"
RecipientIds == {<<97>>, <<98, 58, 97>>}

\* "a" and ""
Messages == {<<97>>, <<>>}

\* the fields of a payload a relay rewrites
ForgedFields == {{"senderId"}, {"recipientId"}, {"timestamp"}, {"senderId", "recipientId"}}

Init == InitKeys

\* p learns the peer's public key and fingerprint from the transport
EstablishSecureSession(p) ==
  /\ ids[Self] # None
  /\ ids[Peer] # None
  /\ sess[p] = None
  /\ LET res == establishSecureSession(ids[p], exportKeyPair(ids[Other(p)]).publicKey,
                                       ids[Other(p)].fingerprint, now)
     IN  sess' = [sess EXCEPT ![p] = IF res.ok THEN res.val ELSE None]
  /\ UNCHANGED <<now, ids, rec, out, pend, wire, store, used, calls, client, net, auth>>

\* encryptSessionMessage up to its await: the timestamp of the associated
\* data is read here
EncryptSessionStart ==
  /\ sess[Self] # None
  /\ pend = None
  /\ wire = None
  /\ \E s \in SenderIds, r \in RecipientIds, m \in Messages :
       pend' = [senderId |-> s, recipientId |-> r, message |-> m, timestamp |-> now]
  /\ UNCHANGED <<now, ids, rec, out, sess, wire, store, used, calls, client, net, auth>>

\* the rest of encryptSessionMessage: encryptMessage stamps its result with
\* the clock value at that moment
EncryptSessionFinish ==
  /\ pend # None
  /\ \E r \in 1..NumRandom :
       LET payload == encryptSessionMessage(sess[Self], pend.senderId, pend.recipientId,
                                            pend.message, pend.timestamp, r, now)
       IN  wire' = [message |-> pend.message, aadTimestamp |-> pend.timestamp, payload |-> payload,
                    sent |-> [senderId |-> payload.senderId, recipientId |-> payload.recipientId,
                              timestamp |-> payload.encrypted.timestamp]]
  /\ pend' = None
  /\ out' = None
  /\ UNCHANGED <<now, ids, rec, sess, store, used, calls, client, net, auth>>

Swap(v, S) == CHOOSE w \in S : w # v

\* the payload in transit differs from the one that was produced
Forged ==
  \/ wire.payload.senderId # wire.sent.senderId
  \/ wire.payload.recipientId # wire.sent.recipientId
  \/ wire.payload.encrypted.timestamp # wire.sent.timestamp

\* the relay rewrites metadata of the payload in transit
ForgePayload ==
  /\ wire # None
  /\ ~Forged
  /\ \E f \in ForgedFields, t \in 0..MaxClock :
       /\ ("timestamp" \in f) => t # wire.sent.timestamp
       /\ ("timestamp" \notin f) => t = wire.sent.timestamp
       /\ wire' = [wire EXCEPT
            !.payload.senderId = IF "senderId" \in f THEN Swap(@, SenderIds) ELSE @,
            !.payload.recipientId = IF "recipientId" \in f THEN Swap(@, RecipientIds) ELSE @,
            !.payload.encrypted.timestamp = t]
  /\ out' = None
  /\ UNCHANGED <<now, ids, rec, sess, pend, store, used, calls, client, net, auth>>

DecryptSessionMessage ==
  /\ wire # None
  /\ sess[Peer] # None
  /\ out' = [op |-> "decryptSessionMessage", forged |-> Forged,
             res |-> decryptSessionMessage(sess[Peer], wire.payload)]
  /\ UNCHANGED <<now, ids, rec, sess, pend, wire, store, used, calls, client, net, auth>>

Next ==
  \/ Tick
  \/ \E p \in Parties : GenerateIdentity(p)
  \/ \E p \in Parties : EstablishSecureSession(p)
  \/ EncryptSessionStart
  \/ EncryptSessionFinish
  \/ ForgePayload
  \/ DecryptSessionMessage

Spec == Init /\ [][Next]_vars

(* ------------------------ properties: session facade ------------------- *)

\* C1: a payload produced by encryptSessionMessage on A's session decrypts on
\* B's session to the message, whatever the identities, the ids and the time
\* that passes during and between the calls.
C1_SessionRoundTrip ==
  (out.op = "decryptSessionMessage" /\ ~out.forged) =>
    /\ out.res.ok
    /\ out.res.val.plaintext = wire.message

\* C10: a payload that differs from the one encryptSessionMessage produced in
\* senderId, recipientId or encrypted.timestamp is rejected by
\* decryptSessionMessage with the authentication error.
C10_MetadataBound ==
  (out.op = "decryptSessionMessage" /\ out.forged) =>
    ~out.res.ok /\ out.res.err = "OperationError"

(* ------------------------ accounts and key storage --------------------- *)

\* 'identity'
IdentityId == <<105, 100, 101, 110, 116, 105, 116, 121>>

\* 'user-', 'demo-user-', 'demo.access.token.', 'demo.refresh.token.'
UserIdPrefix == <<117, 115, 101, 114, 45>>

DemoUserIdPrefix == <<100, 101, 109, 111, 45, 117, 115, 101, 114, 45>>

AccessTokenPrefix == <<100, 101, 109, 111, 46, 97, 99, 99, 101, 115, 115, 46, 116, 111, 107, 101, 110, 46>>

RefreshTokenPrefix == <<100, 101, 109, 111, 46, 114, 101, 102, 114, 101, 115, 104, 46, 116, 111, 107, 101, 110, 46>>

\* 'No key pair found'
NoKeyPairFound == "No key pair found"

\* email.split('@')[0]
SplitAt(email) ==
  IF \E i \in 1..Len(email) : email[i] = 64
  THEN SubSeq(email, 1, (CHOOSE i \in 1..Len(email) :
                           email[i] = 64 /\ \A j \in 1..(i - 1) : email[j] # 64) - 1)
  ELSE email

\* sessionStorage keeps the two token strings, not the expiry
storeTokens(tokens) == [accessToken |-> tokens.accessToken, refreshToken |-> tokens.refreshToken]

\* localStorage keeps the JSON text of the user, held here as its fields
storeUser(user) == user

\* store.put replaces the record with the same id
storeKeyPair(keyPair) == keyPair

getKeyPair(st) == st.keys

DemoTokens(clock) ==
  [accessToken |-> AccessTokenPrefix \o NumToStr(clock),
   refreshToken |-> RefreshTokenPrefix \o NumToStr(clock),
   expiresAt |-> clock + 3600000]

\* d is the scalar the key generator drew
mockLogin(credentials, d, clock) ==
  LET keyPair == generateIdentityKeyPair(d)
      exported == exportKeyPair(keyPair)
  IN  [user |-> [id |-> DemoUserIdPrefix \o NumToStr(clock),
                 email |-> credentials.email,
                 username |-> SplitAt(credentials.email),
                 displayName |-> SplitAt(credentials.email),
                 publicKey |-> exported.publicKey,
                 fingerprint |-> keyPair.fingerprint,
                 createdAt |-> clock],
       tokens |-> DemoTokens(clock)]

mockSignup(credentials, d, clock) ==
  LET keyPair == generateIdentityKeyPair(d)
      exported == exportKeyPair(keyPair)
  IN  [user |-> [id |-> UserIdPrefix \o NumToStr(clock),
                 email |-> credentials.email,
                 username |-> credentials.username,
                 displayName |-> credentials.displayName,
                 publicKey |-> exported.publicKey,
                 fingerprint |-> keyPair.fingerprint,
                 createdAt |-> clock],
       tokens |-> DemoTokens(clock),
       keyPair |-> keyPair]

\* each operation of the AuthContext gives the storage it leaves and its result
login(st, credentials, d, clock) ==
  LET r == mockLogin(credentials, d, clock)
  IN  [store |-> [st EXCEPT !.tokens = storeTokens(r.tokens), !.user = storeUser(r.user)],
       res |-> Ok(<<>>)]

signupPlainKey(st, credentials, d, rs, ri, clock) ==
  LET r == mockSignup(credentials, d, clock)
      backup == createKeyBackup(r.keyPair, credentials.password, rs, ri)
      exported == exportKeyPair(r.keyPair)
  IN  [store |-> [tokens |-> storeTokens(r.tokens),
                  user |-> storeUser(r.user),
                  keys |-> storeKeyPair([id |-> IdentityId,
                                         publicKey |-> exported.publicKey,
                                         encryptedPrivateKey |-> arrayBufferToBase64(TextEncode(exported.privateKey)),
                                         salt |-> backup.salt,
                                         iv |-> backup.iv,
                                         fingerprint |-> r.keyPair.fingerprint,
                                         createdAt |-> clock])],
       res |-> Ok([keyBackup |-> backup])]

signup(st, credentials, d, rs, ri, clock) ==
  LET r == mockSignup(credentials, d, clock)
      backup == createKeyBackup(r.keyPair, credentials.password, rs, ri)
      exported == exportKeyPair(r.keyPair)
  IN  [store |-> [tokens |-> storeTokens(r.tokens),
                  user |-> storeUser(r.user),
                  keys |-> storeKeyPair([id |-> IdentityId,
                                         publicKey |-> exported.publicKey,
                                         encryptedPrivateKey |-> backup.encryptedPrivateKey,
                                         salt |-> backup.salt,
                                         iv |-> backup.iv,
                                         fingerprint |-> r.keyPair.fingerprint,
                                         createdAt |-> clock])],
       res |-> Ok([keyBackup |-> backup])]

\* clearAuthData and deleteKeyPair('identity')
logout(st) == EmptyStore

\* the stored record is only looked up; a new key pair is generated
getUserKeyPair(st, d) ==
  IF getKeyPair(st) = None THEN None ELSE generateIdentityKeyPair(d)

\* fault: the platform's crypto rejects the request
createBackup(st, password, d, rs, ri, fault) ==
  LET keyPair == getUserKeyPair(st, d)
  IN  IF keyPair = None THEN [store |-> st, res |-> Fail(NoKeyPairFound)]
      ELSE IF fault THEN [store |-> st, res |-> Fail("OperationError")]
      ELSE [store |-> st, res |-> Ok(createKeyBackup(keyPair, password, rs, ri))]

restoreFromBackupEager(st, backup, password, clock) ==
  LET keyPair == restoreKeyFromBackup(backup, password)
  IN  [store |-> [st EXCEPT !.keys =
                    storeKeyPair([id |-> IdentityId,
                                  publicKey |-> backup.publicKey,
                                  encryptedPrivateKey |-> backup.encryptedPrivateKey,
                                  salt |-> backup.salt,
                                  iv |-> backup.iv,
                                  fingerprint |-> backup.fingerprint,
                                  createdAt |-> clock])],
       res |-> IF keyPair.ok THEN Ok(<<>>) ELSE keyPair]

restoreFromBackup(st, backup, password, clock) ==
  LET keyPair == restoreKeyFromBackup(backup, password)
  IN  IF ~keyPair.ok THEN [store |-> st, res |-> keyPair]
      ELSE
        LET exported == exportKeyPair(keyPair.val)
        IN  [store |-> [st EXCEPT !.keys =
                          storeKeyPair([id |-> IdentityId,
                                        publicKey |-> exported.publicKey,
                                        encryptedPrivateKey |-> backup.encryptedPrivateKey,
                                        salt |-> backup.salt,
                                        iv |-> backup.iv,
                                        fingerprint |-> keyPair.val.fingerprint,
                                        createdAt |-> clock])],
             res |-> Ok(<<>>)]

(* ----------------------- accounts: the state machine ------------------- *)

\* "e@x"
Emails == {<<101, 64, 120>>}

\* "u"
Usernames == {<<117>>}

SignupCredentials ==
  [email : Emails, password : Passwords, username : Usernames, displayName : Usernames]

LoginCredentials == [email : Emails, password : Passwords]

AuthOps == {"createBackup", "restoreFromBackup"}

\* the clock advances until sign-up, which reads it for the user id and for
\* createdAt; the model follows either an account, from sign-in to one backup or restore
\* request, or what the two parties hand to the transport: the two parts of
\* the program share no state
AccountsUntouched == store = EmptyStore /\ rec = None /\ out.op \notin AuthOps

SessionsUntouched == \A p \in Parties : ids[p] = None

InitAuth == InitKeys

Login ==
  /\ SessionsUntouched
  /\ rec = None
  /\ store.tokens = None
  /\ \E c \in LoginCredentials, d \in Scalars : store' = login(store, c, d, now).store
  /\ out' = None
  /\ UNCHANGED <<now, ids, rec, sess, pend, wire, used, calls, client, net, auth>>

\* the backup signup returns is the record the model follows
Signup ==
  /\ SessionsUntouched
  /\ rec = None
  /\ store.tokens = None
  /\ \E c \in SignupCredentials, d \in Scalars, rs \in 1..NumRandom, ri \in 1..NumRandom :
       \E r \in {signup(store, c, d, rs, ri, now)} :
           /\ store' = r.store
           /\ rec' = [kind |-> "backup", of |-> generateIdentityKeyPair(d), pw |-> c.password,
                      damage |-> "none", val |-> r.res.val.keyBackup]
  /\ out' = None
  /\ UNCHANGED <<now, ids, sess, pend, wire, used, calls, client, net, auth>>

Logout ==
  /\ SessionsUntouched
  /\ out = None
  /\ store # EmptyStore
  /\ store' = logout(store)
  /\ out' = None
  /\ UNCHANGED <<now, ids, rec, sess, pend, wire, used, calls, client, net, auth>>

\* a backup request reads the stored record only, never the backup record the
\* model follows
CreateBackup ==
  /\ SessionsUntouched
  /\ out = None
  /\ (rec # None => rec.damage = "none")
  /\ \E pw \in Passwords, d \in Scalars, rs \in 1..NumRandom, ri \in 1..NumRandom, fault \in BOOLEAN :
       \E r \in {createBackup(store, pw, d, rs, ri, fault)} :
           /\ store' = r.store
           /\ out' = [op |-> "createBackup", ok |-> r.res.ok, err |-> r.res.err,
                      before |-> store.keys]
  /\ UNCHANGED <<now, ids, rec, sess, pend, wire, used, calls, client, net, auth>>

RestoreFromBackup ==
  /\ SessionsUntouched
  /\ out = None
  /\ rec # None
  /\ rec.kind = "backup"
  /\ \E pw \in Passwords :
       \E r \in {restoreFromBackup(store, rec.val, pw, now)} :
           /\ store' = r.store
           /\ out' = [op |-> "restoreFromBackup", ok |-> r.res.ok, err |-> r.res.err,
                      damage |-> rec.damage, before |-> store.keys]
  /\ UNCHANGED <<now, ids, rec, sess, pend, wire, used, calls, client, net, auth>>

NextAuth ==
  \/ Login
  \/ Signup
  \/ Logout
  \/ CreateBackup
  \/ DamageBackup
  \/ RestoreFromBackup
  \/ (rec = None /\ Tick)
  \/ (AccountsUntouched /\ \E p \in Parties : GenerateIdentity(p))
  \/ \E p \in Parties : EstablishSecureSession(p)
  \/ EncryptSessionStart
  \/ EncryptSessionFinish

SpecAuth == InitAuth /\ [][NextAuth]_vars

(* --------------------------- properties: accounts ---------------------- *)

\* the text and the base64 fields of what is in the key store, in
\* localStorage and in sessionStorage, and of the payload handed to the
\* transport
KeysTexts == IF store.keys = None THEN {} ELSE {store.keys.id, store.keys.fingerprint}

KeysBlobs ==
  IF store.keys = None THEN {}
  ELSE {store.keys.publicKey, store.keys.encryptedPrivateKey, store.keys.salt, store.keys.iv}

UserTexts ==
  IF store.user = None THEN {}
  ELSE {store.user.id, store.user.email, store.user.username, store.user.displayName,
        store.user.fingerprint}

UserBlobs == IF store.user = None THEN {} ELSE {store.user.publicKey}

TokenTexts ==
  IF store.tokens = None THEN {} ELSE {store.tokens.accessToken, store.tokens.refreshToken}

WireTexts ==
  IF wire = None THEN {}
  ELSE {wire.payload.sessionId, wire.payload.senderId, wire.payload.recipientId}

WireBlobs == IF wire = None THEN {} ELSE {wire.payload.encrypted.ciphertext}

\* the byte values a base64 field decodes to; a byte of cipher output is opaque
Decoded(base64) ==
  LET r == base64ToArrayBuffer(base64) IN IF r.ok THEN Vals(r.val) ELSE <<>>

\* every password, and the serialized private key of every scalar
SecretTexts ==
  Passwords \cup {JsonStringify(ExportJwk(PrivateKeyHandle(d))) : d \in Scalars}

\* their encodings, and the shared secrets the symmetric keys derive from
SecretBlobs ==
  {Vals(TextEncode(t)) : t \in SecretTexts} \cup {Vals(SecretBytes(z)) : z \in GroupElems}

\* C11: nothing in the key store, localStorage or sessionStorage and nothing
\* handed to the transport is a password, a serialized private key or
\* symmetric key material in the clear, as text or base64-encoded.
C11_NoPlaintextSecrets ==
  /\ \A t \in KeysTexts \cup UserTexts \cup TokenTexts \cup WireTexts : t \notin SecretTexts
  /\ \A b \in KeysBlobs \cup UserBlobs \cup WireBlobs : Decoded(b) \notin SecretBlobs

C11_Witness ==
  /\ store.keys # None
  /\ store.user # None
  /\ store.tokens # None
  /\ out.op = "restoreFromBackup"
  /\ out.ok

\* C12: after a failed restoreFromBackup or createBackup the record stored
\* under 'identity' is the one that was there before the call.
C12_NoPartialState ==
  (out.op \in AuthOps /\ ~out.ok) => store.keys = out.before

C12_Witness ==
  /\ out.op = "restoreFromBackup"
  /\ ~out.ok
  /\ out.before # None

(* ------------- nonces and binary payloads: the state machine ----------- *)

\* no bytes, one zero byte, and two bytes that are not UTF-8
BinaryData == {<<>>, Bytes(<<0>>), Bytes(<<255, 1>>)}

\* the nonce at the head of nonce || cipher output || tag
NonceOf(combined) == Vals(Slice(combined, 0, IV_LENGTH))

InitBinary == InitKeys

\* one more encryptMessage call; the log keeps its key, the draw of the
\* random source and the nonce of its output
EncryptMessageNext ==
  /\ Len(used) < MaxEncryptions
  /\ \E k \in CipherKeys, r \in 1..NumRandom :
       LET em == encryptMessage(k, <<97>>, Undefined, r, now)
       IN  used' = Append(used, [key |-> k, r |-> r,
                                 iv |-> NonceOf(base64ToArrayBuffer(em.ciphertext).val)])
  /\ UNCHANGED <<now, ids, rec, out, sess, pend, wire, store, calls, client, net, auth>>

EncryptBinaryData ==
  /\ Len(used) < MaxEncryptions
  /\ \E k \in CipherKeys, d \in BinaryData, r \in 1..NumRandom :
       LET encrypted == encryptBinaryData(k, d, r)
       IN  /\ rec' = [kind |-> "binary", key |-> k, data |-> d, val |-> encrypted]
           /\ used' = Append(used, [key |-> k, r |-> r, iv |-> NonceOf(encrypted)])
  /\ out' = None
  /\ UNCHANGED <<now, ids, sess, pend, wire, store, calls, client, net, auth>>

DecryptBinaryData ==
  /\ rec # None
  /\ rec.kind = "binary"
  /\ \E k \in CipherKeys :
       out' = [op |-> "decryptBinaryData", usedKey |-> k, res |-> decryptBinaryData(k, rec.val)]
  /\ UNCHANGED <<now, ids, rec, sess, pend, wire, store, used, calls, client, net, auth>>

\* the binary output, base64-encoded, given to decryptMessage without
\* associated data
DecryptMessageOfBinary ==
  /\ rec # None
  /\ rec.kind = "binary"
  /\ \E k \in CipherKeys :
       out' = [op |-> "decryptMessageOfBinary", usedKey |-> k,
               res |-> decryptMessage(k, [ciphertext |-> arrayBufferToBase64(rec.val),
                                          timestamp |-> now], Undefined)]
  /\ UNCHANGED <<now, ids, rec, sess, pend, wire, store, used, calls, client, net, auth>>

NextBinary ==
  \/ EncryptMessageNext
  \/ EncryptBinaryData
  \/ DecryptBinaryData
  \/ DecryptMessageOfBinary

SpecBinary == InitBinary /\ [][NextBinary]_vars

(* ----------------- properties: nonces and binary payloads -------------- *)

\* C13 as stated: every call uses a 12-byte nonce and no two calls with the
\* same key use the same nonce.
C13_Original ==
  /\ \A i \in 1..Len(used) : Len(used[i].iv) = IV_LENGTH
  /\ \A i \in 1..Len(used), j \in 1..Len(used) :
       (i # j /\ used[i].key = used[j].key) => used[i].iv # used[j].iv

\* C13 amended: the nonce of every call is the 12 bytes the random source
\* returned during that call, and two calls with the same key use the same
\* nonce only when the random source returned the same bytes to both.
C13_FreshNonce ==
  /\ \A i \in 1..Len(used) : used[i].iv = [n \in 1..IV_LENGTH |-> used[i].r]
  /\ \A i \in 1..Len(used), j \in 1..Len(used) :
       (used[i].key = used[j].key /\ used[i].iv = used[j].iv) => used[i].r = used[j].r

C13_Witness ==
  /\ Len(used) = 2
  /\ used[1].key = used[2].key
  /\ used[1].iv # used[2].iv
  /\ rec # None

\* C18: decryptBinaryData with the key of encryptBinaryData returns the
\* payload; the output is the 12-byte nonce, then as many cipher bytes as the
\* payload has plus the 16 tag bytes, sealed under that nonce with no
\* associated data, and its base64 is accepted by decryptMessage without
\* associated data.
C18_BinaryRoundTrip ==
  (rec # None /\ rec.kind = "binary") =>
    /\ Len(rec.val) = IV_LENGTH + Len(rec.data) + TAG_BYTES
    /\ \A i \in 1..IV_LENGTH : rec.val[i].seal = <<>>
    /\ \A i \in (IV_LENGTH + 1)..Len(rec.val) :
         rec.val[i].seal = <<rec.key, NonceOf(rec.val), <<>>, Vals(rec.data)>>
    /\ (out.op = "decryptBinaryData" /\ out.usedKey = rec.key) =>
         out.res.ok /\ out.res.val = rec.data
    /\ (out.op = "decryptMessageOfBinary" /\ out.usedKey = rec.key) =>
         out.res.ok /\ out.res.val.plaintext = TextDecode(rec.data)

C18_Witness ==
  /\ rec # None
  /\ rec.kind = "binary"
  /\ Len(rec.data) = 2
  /\ out.op = "decryptBinaryData"
  /\ out.usedKey = rec.key
  /\ out.res.ok

(* ------------ concurrent calls on a session: the state machine --------- *)

\* "a" and U+FEFF "a"
ConcurrentMessages == {<<97>>, <<65279, 97>>}

\* 'a' sends to 'b'
SenderId == <<97>>

RecipientId == <<98>>

InitConcurrent == InitKeys

\* call c of encryptSessionMessage on the sender's session, up to its await
EncryptCallStart(c) ==
  /\ sess[Self] # None
  /\ sess[Peer] # None
  /\ calls[c] = None
  /\ \A b \in Calls : b < c => calls[b] # None
  /\ \E m \in ConcurrentMessages :
       calls' = [calls EXCEPT ![c] = [pc |-> "encrypting", message |-> m, timestamp |-> now]]
  /\ UNCHANGED <<now, ids, rec, out, sess, pend, wire, store, used, client, net, auth>>

\* the call resumes and returns its payload
EncryptCallFinish(c) ==
  /\ calls[c] # None
  /\ calls[c].pc = "encrypting"
  /\ \E r \in 1..NumRandom :
       calls' = [calls EXCEPT ![c] =
                   [pc |-> "sent", message |-> calls[c].message,
                    payload |-> encryptSessionMessage(sess[Self], SenderId, RecipientId,
                                                      calls[c].message, calls[c].timestamp, r, now)]]
  /\ UNCHANGED <<now, ids, rec, out, sess, pend, wire, store, used, client, net, auth>>

\* decryptSessionMessage of the payload of call c on the receiver's session,
\* up to its await: the payload has been read
DecryptCallStart(c) ==
  /\ calls[c] # None
  /\ calls[c].pc = "sent"
  /\ calls' = [calls EXCEPT ![c] =
                 [pc |-> "decrypting", message |-> calls[c].message,
                  res |-> decryptSessionMessage(sess[Peer], calls[c].payload)]]
  /\ UNCHANGED <<now, ids, rec, out, sess, pend, wire, store, used, client, net, auth>>

\* the call resumes and returns or throws
DecryptCallFinish(c) ==
  /\ calls[c] # None
  /\ calls[c].pc = "decrypting"
  /\ calls' = [calls EXCEPT ![c].pc = "done"]
  /\ UNCHANGED <<now, ids, rec, out, sess, pend, wire, store, used, client, net, auth>>

NextConcurrent ==
  \/ Tick
  \/ \E p \in Parties : GenerateIdentity(p)
  \/ \E p \in Parties : EstablishSecureSession(p)
  \/ \E c \in Calls : EncryptCallStart(c)
  \/ \E c \in Calls : EncryptCallFinish(c)
  \/ \E c \in Calls : DecryptCallStart(c)
  \/ \E c \in Calls : DecryptCallFinish(c)

SpecConcurrent == InitConcurrent /\ [][NextConcurrent]_vars

(* ------------------ properties: concurrent calls ----------------------- *)

\* no step changes a field of an established session
SessionKept == \A p \in Parties : sess[p] # None => sess'[p] = sess[p]

\* every finished decrypt call failed or returned the message its own
\* payload was made from
OwnPlaintext ==
  \A c \in Calls :
    (calls[c] # None /\ calls[c].pc = "done") =>
      \/ ~calls[c].res.ok
      \/ calls[c].res.val.plaintext = calls[c].message

\* C15: the calls of encryptSessionMessage and decryptSessionMessage leave
\* the session as it is, and under every interleaving of two concurrent calls
\* each decrypt call fails or returns the plaintext of its own payload.
C15_ConcurrentUse == [][SessionKept /\ OwnPlaintext']_vars

(* ------------------- byte comparisons: the state machine --------------- *)

CompareValues == {0, 1, 255}

\* every byte sequence of at most MaxCompareLen bytes over these values
CompareInputs ==
  UNION {[1..n -> {Byte(v) : v \in CompareValues}] : n \in 0..MaxCompareLen}

InitCompare == InitKeys

\* each behaviour is one comparison
SecureCompare ==
  /\ out = None
  /\ \E a \in CompareInputs, b \in CompareInputs :
       out' = [op |-> "secureCompare", a |-> Vals(a), b |-> Vals(b),
               res |-> secureCompare(Whole(a), Whole(b))]
  /\ UNCHANGED <<now, ids, rec, sess, pend, wire, store, used, calls, client, net, auth>>

CompareArrayBuffers ==
  /\ out = None
  /\ \E a \in CompareInputs, b \in CompareInputs :
       out' = [op |-> "compareArrayBuffers", a |-> Vals(a), b |-> Vals(b),
               res |-> compareArrayBuffers(a, b)]
  /\ UNCHANGED <<now, ids, rec, sess, pend, wire, store, used, calls, client, net, auth>>

NextCompare ==
  \/ SecureCompare
  \/ CompareArrayBuffers

SpecCompare == InitCompare /\ [][NextCompare]_vars

(* --------------------- properties: byte comparisons -------------------- *)

\* C17: secureCompare is true exactly for arrays of the same length with
\* equal bytes at every index; for arrays of the same length its loop runs
\* once per index wherever the first mismatch is, and only for arrays of
\* different lengths does it return before the loop.
C17_SecureCompare ==
  out.op = "secureCompare" =>
    /\ out.res.value <=>
         (Len(out.a) = Len(out.b) /\ \A i \in 1..Len(out.a) : out.a[i] = out.b[i])
    /\ Len(out.a) = Len(out.b) => out.res.iterations = Len(out.a)
    /\ Len(out.a) # Len(out.b) => out.res.iterations = 0

C17_Witness ==
  /\ out.op = "secureCompare"
  /\ Len(out.a) = Len(out.b)
  /\ Len(out.a) >= 2
  /\ out.a[1] # out.b[1]
  /\ ~out.res.value
  /\ out.res.iterations = Len(out.a)

(* ------------------------------ self-test ------------------------------ *)

\* 'Hello, this is a secret message! ' followed by U+1F510
TestMessage ==
  <<72, 101, 108, 108, 111, 44, 32, 116, 104, 105, 115, 32, 105, 115, 32, 97, 32, 115, 101, 99,
    114, 101, 116, 32, 109, 101, 115, 115, 97, 103, 101, 33, 32, 55357, 56592>>

\* 'Secret session message!'
SessionTestMessage ==
  <<83, 101, 99, 114, 101, 116, 32, 115, 101, 115, 115, 105, 111, 110, 32, 109, 101, 115, 115,
    97, 103, 101, 33>>

\* 'alice' and 'bob'
AliceId == <<97, 108, 105, 99, 101>>

BobId == <<98, 111, 98>>

NumStages == 8

\* the eight stages of the test in order: the name of the step a stage
\* records, whether one of its operations throws, and the success flag of its
\* step. dA and dB are the scalars the key generator draws, r1 and r2 the
\* draws of the random source, t1 and t2 the clock when encryptSessionMessage
\* starts and when its result is stamped, fault the stage at which the
\* platform's crypto rejects a request (0: never)
SelfTestStages(dA, dB, r1, r2, t1, t2, fault) ==
  LET alice == generateIdentityKeyPair(dA)
      bob == generateIdentityKeyPair(dB)
      aliceExported == exportKeyPair(alice)
      aliceImported == importKeyPair(aliceExported)
      aliceShared == deriveSharedSecret(alice.privateKey, bob.publicKey)
      bobShared == deriveSharedSecret(bob.privateKey, alice.publicKey)
      sharedMatch == arrayBufferToHex(aliceShared) = arrayBufferToHex(bobShared)
      sessionKey == deriveSessionKey(aliceShared, Undefined, HKDF_INFO)
      encrypted == encryptMessage(sessionKey, TestMessage, Undefined, r1, t1)
      decrypted == decryptMessage(sessionKey, encrypted, Undefined)
      bobExported == exportKeyPair(bob)
      aliceSession == establishSecureSession(alice, bobExported.publicKey, bob.fingerprint, t1)
      realAliceSession == establishSecureSession(alice, bobExported.publicKey, bob.fingerprint, t1)
      realBobSession == establishSecureSession(bob, aliceExported.publicKey, alice.fingerprint, t1)
      sessionsOk == aliceSession.ok /\ realAliceSession.ok /\ realBobSession.ok
      sessionMessage == encryptSessionMessage(realAliceSession.val, AliceId, BobId,
                                              SessionTestMessage, t1, r2, t2)
      decryptedSession == IF sessionsOk
                          THEN decryptSessionMessage(realBobSession.val, sessionMessage)
                          ELSE Fail("DataError")
  IN  <<[name |-> "Generate Alice's identity", thrown |-> fault = 1, success |-> TRUE],
        [name |-> "Generate Bob's identity", thrown |-> fault = 2, success |-> TRUE],
        [name |-> "Key serialization round-trip",
         thrown |-> fault = 3 \/ ~aliceImported.ok,
         success |-> aliceImported.ok /\ aliceImported.val.fingerprint = alice.fingerprint],
        [name |-> "ECDH Key Exchange", thrown |-> fault = 4, success |-> sharedMatch],
        [name |-> "HKDF Session Key Derivation", thrown |-> fault = 5, success |-> TRUE],
        [name |-> "AES-256-GCM Encryption", thrown |-> fault = 6,
         success |-> 4 * Len(encrypted.ciphertext) > 0],
        [name |-> "AES-256-GCM Decryption",
         thrown |-> fault = 7 \/ ~decrypted.ok,
         success |-> decrypted.ok /\ decrypted.val.plaintext = TestMessage],
        [name |-> "Full E2EE Session Test",
         thrown |-> fault = 8 \/ ~decryptedSession.ok,
         success |-> decryptedSession.ok /\ decryptedSession.val.plaintext = SessionTestMessage]>>

\* the first stage that throws, 0 when none does
FirstThrow(stages) ==
  IF \E k \in 1..Len(stages) : stages[k].thrown
  THEN CHOOSE k \in 1..Len(stages) : stages[k].thrown /\ \A j \in 1..(k - 1) : ~stages[j].thrown
  ELSE 0

\* steps.push of the first n stages
Recorded(stages, n) == [i \in 1..n |-> [name |-> stages[i].name, success |-> stages[i].success]]

runCryptoSelfTestNoCatch(stages) ==
  LET k == FirstThrow(stages)
      steps == Recorded(stages, Len(stages))
  IN  IF k = 0
      THEN Ok([success |-> \A i \in 1..Len(steps) : steps[i].success, steps |-> steps])
      ELSE Fail("OperationError")

\* the result the promise resolves with, or the error it rejects with, for
\* the given course of the stages
runCryptoSelfTest(stages) ==
  LET k == FirstThrow(stages)
      steps == Recorded(stages, Len(stages))
  IN  IF k = 0
      THEN Ok([success |-> \A i \in 1..Len(steps) : steps[i].success, steps |-> steps])
      ELSE Ok([success |-> FALSE,
               steps |-> Recorded(stages, k - 1)
                           \o <<[name |-> "Unexpected Error", success |-> FALSE]>>])

InitSelfTest == InitKeys

\* each behaviour is one run of the test
RunCryptoSelfTest ==
  /\ out = None
  /\ \E dA \in Scalars, dB \in Scalars, r1 \in 1..NumRandom, r2 \in 1..NumRandom,
        t2 \in now..MaxClock, fault \in 0..NumStages :
       \E stages \in {SelfTestStages(dA, dB, r1, r2, now, t2, fault)} :
           out' = [op |-> "runCryptoSelfTest",
                   input |-> [dA |-> dA, dB |-> dB, r1 |-> r1, r2 |-> r2, t1 |-> now, t2 |-> t2,
                              fault |-> fault],
                   thrownAt |-> FirstThrow(stages),
                   res |-> runCryptoSelfTest(stages)]
  /\ UNCHANGED <<now, ids, rec, sess, pend, wire, store, used, calls, client, net, auth>>

NextSelfTest == RunCryptoSelfTest

SpecSelfTest == InitSelfTest /\ [][NextSelfTest]_vars

(* -------------------------- properties: self-test ---------------------- *)

StepNames ==
  <<"Generate Alice's identity", "Generate Bob's identity", "Key serialization round-trip",
    "ECDH Key Exchange", "HKDF Session Key Derivation", "AES-256-GCM Encryption",
    "AES-256-GCM Decryption", "Full E2EE Session Test">>

\* C19: runCryptoSelfTest always returns a result; its success flag is true
\* exactly when every recorded step succeeded; when no operation throws all
\* eight steps are recorded, and when the operation of stage k throws the
\* steps of the stages before k are kept, one failing step follows them and
\* success is false.
C19_SelfTest ==
  out.op = "runCryptoSelfTest" =>
    /\ out.res.ok
    /\ LET steps == out.res.val.steps
           k == out.thrownAt
       IN  /\ out.res.val.success <=> \A i \in 1..Len(steps) : steps[i].success
           /\ k = 0 =>
                /\ Len(steps) = NumStages
                /\ \A i \in 1..NumStages : steps[i].name = StepNames[i]
           /\ k > 0 =>
                /\ Len(steps) = k
                /\ \A i \in 1..(k - 1) : steps[i].name = StepNames[i]
                /\ steps[k] = [name |-> "Unexpected Error", success |-> FALSE]
                /\ ~out.res.val.success

C19_Witness ==
  /\ out.op = "runCryptoSelfTest"
  /\ out.input.fault = 0
  /\ out.thrownAt = NumStages
  /\ out.res.ok
  /\ Len(out.res.val.steps) = NumStages

(* ----------------------- associated data, alone ------------------------ *)

\* 'a' and ':'
IdChars == {97, 58}

AadIds == UNION {[1..n -> IdChars] : n \in 0..MaxIdLen}

\* one-digit and two-digit timestamps
AadStamps == (0..MaxClock) \cup {10}

AadTriples == [senderId : AadIds, recipientId : AadIds, timestamp : AadStamps]

InitAAD == InitKeys

\* each behaviour is one call
CreateAAD ==
  /\ out = None
  /\ \E t \in AadTriples :
       out' = [op |-> "createAAD", input |-> t,
               res |-> Vals(createAAD(t.senderId, t.recipientId, t.timestamp).buf)]
  /\ UNCHANGED <<now, ids, rec, sess, pend, wire, store, used, calls, client, net, auth>>

NextAAD == CreateAAD

SpecAAD == InitAAD /\ [][NextAAD]_vars

\* C26: two triples (senderId, recipientId, timestamp) that differ in a
\* component never give the same associated data bytes.
C26_Injective ==
  out.op = "createAAD" =>
    \A t \in AadTriples :
      t # out.input => Vals(createAAD(t.senderId, t.recipientId, t.timestamp).buf) # out.res

(* ---------------------- a party's own payloads ------------------------- *)

InitDirection == InitKeys

\* the payload comes back to the session that produced it
DecryptOwnMessage ==
  /\ wire # None
  /\ out = None
  /\ out' = [op |-> "decryptOwnMessage",
             res |-> decryptSessionMessage(sess[Self], wire.payload)]
  /\ UNCHANGED <<now, ids, rec, sess, pend, wire, store, used, calls, client, net, auth>>

NextDirection ==
  \/ Tick
  \/ \E p \in Parties : GenerateIdentity(p)
  \/ \E p \in Parties : EstablishSecureSession(p)
  \/ EncryptSessionStart
  \/ EncryptSessionFinish
  \/ DecryptOwnMessage

SpecDirection == InitDirection /\ [][NextDirection]_vars

\* C27: in every established session the send key differs from the receive
\* key, whatever the two fingerprints, and a session never decrypts a payload
\* it produced itself.
C27_DirectionalSeparation ==
  /\ \A p \in Parties : sess[p] # None => sess[p].sendKey # sess[p].receiveKey
  /\ out.op = "decryptOwnMessage" => (~out.res.ok /\ out.res.err = "OperationError")

\* the own payload of a session between identities with equal fingerprints,
\* made while the clock stood still
C27_Witness ==
  /\ out.op = "decryptOwnMessage"
  /\ ids[Self].fingerprint = ids[Peer].fingerprint
  /\ wire.aadTimestamp = wire.sent.timestamp

(* --------------------------- the auth reducer -------------------------- *)

authReducerKeepToken(state, action) ==
  IF action.type = "AUTH_START" THEN [state EXCEPT !.isLoading = TRUE, !.error = NullString]
  ELSE IF action.type = "AUTH_SUCCESS"
  THEN [state EXCEPT !.user = action.payload.user, !.token = action.payload.token,
                     !.isAuthenticated = TRUE, !.isLoading = FALSE, !.error = NullString]
  ELSE IF action.type = "AUTH_FAILURE"
  THEN [state EXCEPT !.user = None, !.token = NullString, !.isAuthenticated = FALSE,
                     !.isLoading = FALSE, !.error = action.payload]
  ELSE IF action.type = "AUTH_LOGOUT"
  THEN [state EXCEPT !.user = None, !.isAuthenticated = FALSE,
                     !.isLoading = FALSE, !.error = NullString]
  ELSE IF action.type = "SET_LOADING" THEN [state EXCEPT !.isLoading = action.payload]
  ELSE IF action.type = "CLEAR_ERROR" THEN [state EXCEPT !.error = NullString]
  ELSE state

authReducer(state, action) ==
  IF action.type = "AUTH_START" THEN [state EXCEPT !.isLoading = TRUE, !.error = NullString]
  ELSE IF action.type = "AUTH_SUCCESS"
  THEN [state EXCEPT !.user = action.payload.user, !.token = action.payload.token,
                     !.isAuthenticated = TRUE, !.isLoading = FALSE, !.error = NullString]
  ELSE IF action.type = "AUTH_FAILURE"
  THEN [state EXCEPT !.user = None, !.token = NullString, !.isAuthenticated = FALSE,
                     !.isLoading = FALSE, !.error = action.payload]
  ELSE IF action.type = "AUTH_LOGOUT"
  THEN [state EXCEPT !.user = None, !.token = NullString, !.isAuthenticated = FALSE,
                     !.isLoading = FALSE, !.error = NullString]
  ELSE IF action.type = "SET_LOADING" THEN [state EXCEPT !.isLoading = action.payload]
  ELSE IF action.type = "CLEAR_ERROR" THEN [state EXCEPT !.error = NullString]
  ELSE state

\* the users of two sign-ins
ReducerUsers == {mockLogin(c, d, 0).user : c \in LoginCredentials, d \in {1, 2}}

\* "t" and ""
ReducerTokens == {<<116>>, <<>>}

\* "e" and ""
ReducerErrors == {<<101>>, <<>>}

\* the actions of type AuthAction, and one of a type the reducer does not know
AuthActions ==
  {[type |-> "AUTH_START"], [type |-> "AUTH_LOGOUT"], [type |-> "CLEAR_ERROR"], [type |-> "OTHER"]}
  \cup {[type |-> "AUTH_SUCCESS", payload |-> [user |-> u, token |-> t]] :
          u \in ReducerUsers, t \in ReducerTokens}
  \cup {[type |-> "AUTH_FAILURE", payload |-> e] : e \in ReducerErrors}
  \cup {[type |-> "SET_LOADING", payload |-> b] : b \in BOOLEAN}

InitReducer == InitKeys

\* dispatch(action)
Dispatch ==
  /\ \E action \in AuthActions :
       /\ auth' = authReducer(auth, action)
       /\ out' = [op |-> "authReducer", action |-> action, before |-> auth]
  /\ UNCHANGED <<now, ids, rec, sess, pend, wire, store, used, calls, client, net>>

NextReducer == Dispatch

SpecReducer == InitReducer /\ [][NextReducer]_vars

\* C30: isAuthenticated is true exactly when user and token are both
\* non-null; AUTH_FAILURE and AUTH_LOGOUT clear user and token; SET_LOADING and
\* CLEAR_ERROR leave user, token and isAuthenticated as they were.
C30_Authenticated ==
  /\ auth.isAuthenticated <=> (auth.user # None /\ auth.token # NullString)
  /\ out.op = "authReducer" =>
       /\ out.action.type \in {"AUTH_FAILURE", "AUTH_LOGOUT"} =>
            (auth.user = None /\ auth.token = NullString)
       /\ out.action.type \in {"SET_LOADING", "CLEAR_ERROR"} =>
            /\ auth.user = out.before.user
            /\ auth.token = out.before.token
            /\ auth.isAuthenticated = out.before.isAuthenticated

\* a logout of a signed-in user
C30_Witness ==
  /\ out.op = "authReducer"
  /\ out.action.type = "AUTH_LOGOUT"
  /\ out.before.isAuthenticated
  /\ out.before.user # None

(* -------------------------- WebSocket client --------------------------- *)

DefaultReconnectInterval == 3000

DefaultMaxReconnectAttempts == 10

DefaultHeartbeatInterval == 30000

MaxReconnectDelay == 30000

\* config.x || default: 0 stands for a value that is absent or 0
OrDefault(value, default) == IF value = 0 THEN default ELSE value

\* the object after its constructor
WebSocketClient(config) ==
  [ws |-> 0,
   config |-> [url |-> config.url,
               token |-> config.token,
               reconnectInterval |-> OrDefault(config.reconnectInterval, DefaultReconnectInterval),
               maxReconnectAttempts |->
                 OrDefault(config.maxReconnectAttempts, DefaultMaxReconnectAttempts),
               heartbeatInterval |-> OrDefault(config.heartbeatInterval, DefaultHeartbeatInterval)],
   connectionState |-> "disconnected",
   reconnectAttempts |-> 0,
   reconnectTimer |-> 0,
   heartbeatTimer |-> 0,
   messageQueue |-> <<>>]

\* new URL(url) and new WebSocket(url) accept it
IsUrl(url) == url = "wss://chat"

\* in the operators below w is the client together with the platform:
\* [client |-> the object's fields, net |-> sockets, timers, what sockets were given]
setConnectionState(w, state) == [w EXCEPT !.client.connectionState = state]

stopHeartbeat(w) == [w EXCEPT !.client.heartbeatTimer = 0]

startHeartbeat(w) == [stopHeartbeat(w) EXCEPT !.client.heartbeatTimer = 1]

stopReconnect(w) ==
  IF w.client.reconnectTimer # 0
  THEN [w EXCEPT !.net.timers[w.client.reconnectTimer].pending = FALSE,
                 !.client.reconnectTimer = 0]
  ELSE w

scheduleReconnectKeepTimer(w) ==
  LET delay == Min(w.client.config.reconnectInterval * (2 ^ w.client.reconnectAttempts),
                   MaxReconnectDelay)
  IN  [w EXCEPT !.net.timers = Append(@, [pending |-> TRUE, delay |-> delay]),
                !.client.reconnectTimer = Len(w.net.timers) + 1]

scheduleReconnect(w) ==
  LET s == stopReconnect(w)
      delay == Min(s.client.config.reconnectInterval * (2 ^ s.client.reconnectAttempts),
                   MaxReconnectDelay)
  IN  [s EXCEPT !.net.timers = Append(@, [pending |-> TRUE, delay |-> delay]),
                !.client.reconnectTimer = Len(s.net.timers) + 1]

handleDisconnect(w) ==
  LET s == [stopHeartbeat(w) EXCEPT !.client.ws = 0]
  IN  IF s.client.reconnectAttempts < s.client.config.maxReconnectAttempts
      THEN scheduleReconnect(setConnectionState(s, "reconnecting"))
      ELSE setConnectionState(s, "disconnected")

\* the constructor of the socket throws for a url it cannot parse
connect(w) ==
  IF w.client.connectionState \in {"connected", "connecting"} THEN w
  ELSE LET s == setConnectionState(w, "connecting")
       IN  IF IsUrl(s.client.config.url)
           THEN [s EXCEPT !.net.sockets = Append(@, "CONNECTING"),
                          !.client.ws = Len(s.net.sockets) + 1]
           ELSE handleDisconnect(s)

\* socket.close(): a socket that is not yet closed starts closing
Close(readyState) == IF readyState \in {"CONNECTING", "OPEN"} THEN "CLOSING" ELSE readyState

disconnect(w) ==
  LET s == stopReconnect(stopHeartbeat(w))
      t == IF s.client.ws # 0
           THEN [s EXCEPT !.net.sockets[s.client.ws] = Close(@), !.client.ws = 0]
           ELSE s
  IN  setConnectionState(t, "disconnected")

queueMessageDropNewest(w, message) ==
  LET queue == Append(w.client.messageQueue, message)
  IN  [w EXCEPT !.client.messageQueue =
         IF Len(queue) > QueueLimit THEN w.client.messageQueue ELSE queue]

queueMessage(w, message) ==
  LET queue == Append(w.client.messageQueue, message)
  IN  [w EXCEPT !.client.messageQueue = IF Len(queue) > QueueLimit THEN Tail(queue) ELSE queue]

\* this.ws.send(JSON.stringify(message)) throws when the message cannot be
\* serialized or the socket is still connecting
SendThrows(w, message) ==
  \/ ~message.serializable
  \/ w.net.sockets[w.client.ws] = "CONNECTING"

\* otherwise the socket is given the message; a closing or closed socket
\* discards it without an error
SocketSend(w, message) ==
  [w EXCEPT !.net.handed =
     Append(@, [socket |-> w.client.ws, id |-> message.id,
                readyState |-> w.net.sockets[w.client.ws]])]

\* the result is the new state and the value send returns
send(w, type, serializable) ==
  LET message == [id |-> w.net.sends + 1, type |-> type, serializable |-> serializable]
      s == [w EXCEPT !.net.sends = @ + 1]
  IN  IF s.client.connectionState = "connected" /\ s.client.ws # 0
      THEN IF SendThrows(s, message)
           THEN [w |-> queueMessage(s, message), res |-> FALSE]
           ELSE [w |-> SocketSend(s, message), res |-> TRUE]
      ELSE [w |-> queueMessage(s, message), res |-> FALSE]

RECURSIVE flushMessageQueue(_)
flushMessageQueue(w) ==
  IF Len(w.client.messageQueue) > 0 /\ w.client.connectionState = "connected"
  THEN LET message == Head(w.client.messageQueue)
           s == [w EXCEPT !.client.messageQueue = Tail(@)]
       IN  IF s.client.ws # 0
           THEN IF SendThrows(s, message)
                THEN [s EXCEPT !.client.messageQueue = <<message>> \o @]
                ELSE flushMessageQueue(SocketSend(s, message))
           ELSE flushMessageQueue(s)
  ELSE w

\* ws.onopen
onopen(w) ==
  flushMessageQueue(
    startHeartbeat([setConnectionState(w, "connected") EXCEPT !.client.reconnectAttempts = 0]))

\* ws.onclose
onclose(w) == handleDisconnect(w)

setToken(w, token) ==
  LET s == [w EXCEPT !.client.config.token = token]
  IN  IF s.client.connectionState = "connected" THEN connect(disconnect(s)) ELSE s

\* the callback of the reconnect timer
reconnectTimeout(w) == connect([w EXCEPT !.client.reconnectAttempts = @ + 1])

\* the callback of the heartbeat interval
heartbeat(w) == send(w, "ping", TRUE)

(* -------------------- WebSocket client: state machine ------------------ *)

Urls == {"wss://chat", "chat"}

Tokens == {"t"}

\* 0 is a setting left out
Config(url, reconnectInterval, maxReconnectAttempts) ==
  [url |-> url, token |-> "", reconnectInterval |-> reconnectInterval,
   maxReconnectAttempts |-> maxReconnectAttempts, heartbeatInterval |-> 0]

SocketConfigs ==
  {Config("wss://chat", 0, 0), Config("wss://chat", 20000, MaxAttempts),
   Config("wss://chat", 0, 1), Config("chat", 0, 1)}

QueueConfigs == {Config("wss://chat", 0, 0)}

InitSocket ==
  /\ InitCrypto
  /\ \E config \in SocketConfigs : client = WebSocketClient(config)
  /\ net = EmptyNet
  /\ auth = initialState

World == [client |-> client, net |-> net]

\* the bounds of the model
Within(w) ==
  /\ Len(w.net.sockets) <= MaxSockets
  /\ Len(w.net.timers) <= MaxTimers
  /\ w.net.sends <= MaxSends

\* disconnect() returned and connect() was not called since
Quiet == out.op # "none" /\ out.quiet

Becomes(w) ==
  /\ Within(w)
  /\ client' = w.client
  /\ net' = w.net
  /\ UNCHANGED <<now, ids, rec, sess, pend, wire, store, used, calls, auth>>

Connect ==
  /\ Becomes(connect(World))
  /\ out' = [op |-> "connect", quiet |-> FALSE]

Disconnect ==
  /\ Becomes(disconnect(World))
  /\ out' = [op |-> "disconnect", quiet |-> TRUE]

SetToken ==
  /\ \E token \in Tokens : Becomes(setToken(World, token))
  /\ out' = [op |-> "setToken", quiet |-> Quiet /\ client.connectionState # "connected"]

Send ==
  \E serializable \in BOOLEAN :
    \E r \in {send(World, "message", serializable)} :
      /\ Becomes(r.w)
      /\ out' = [op |-> "send", quiet |-> Quiet, res |-> r.res,
                 queued |-> Len(client.messageQueue)]

\* the open event of a socket
SocketOpen(i) ==
  /\ net.sockets[i] = "CONNECTING"
  /\ Becomes(onopen([World EXCEPT !.net.sockets[i] = "OPEN"]))
  /\ out' = [op |-> "onopen", quiet |-> Quiet, socket |-> i]

\* the close event of a socket: the connection failed, was lost or was closed
SocketClose(i) ==
  /\ net.sockets[i] # "CLOSED"
  /\ Becomes(onclose([World EXCEPT !.net.sockets[i] = "CLOSED"]))
  /\ out' = [op |-> "onclose", quiet |-> Quiet, socket |-> i]

\* a pending reconnect timer fires
ReconnectTimeout(t) ==
  /\ net.timers[t].pending
  /\ Becomes(reconnectTimeout([World EXCEPT !.net.timers[t].pending = FALSE]))
  /\ out' = [op |-> "reconnectTimeout", quiet |-> FALSE]

\* the heartbeat interval fires
Heartbeat ==
  /\ client.heartbeatTimer # 0
  /\ \E r \in {heartbeat(World)} :
       /\ Becomes(r.w)
       /\ out' = [op |-> "heartbeat", quiet |-> Quiet, res |-> r.res,
                  queued |-> Len(client.messageQueue)]

\* the connection is followed with few send() calls
LifecycleBounds == net.sends <= MaxLifecycleSends

NextSocket ==
  \/ (Connect /\ LifecycleBounds')
  \/ (Disconnect /\ LifecycleBounds')
  \/ (SetToken /\ LifecycleBounds')
  \/ (Send /\ LifecycleBounds')
  \/ \E i \in 1..MaxSockets : i <= Len(net.sockets) /\ SocketOpen(i) /\ LifecycleBounds'
  \/ \E i \in 1..MaxSockets : i <= Len(net.sockets) /\ SocketClose(i) /\ LifecycleBounds'
  \/ \E t \in 1..MaxTimers : t <= Len(net.timers) /\ ReconnectTimeout(t) /\ LifecycleBounds'
  \/ (Heartbeat /\ LifecycleBounds')

SpecSocket == InitSocket /\ [][NextSocket]_vars

InitQueue ==
  /\ InitCrypto
  /\ \E config \in QueueConfigs : client = WebSocketClient(config)
  /\ net = EmptyNet
  /\ auth = initialState

\* the queue is followed over few sockets and timers
QueueBounds == Len(net.sockets) <= MaxQueueSockets /\ Len(net.timers) <= MaxQueueTimers

NextQueue ==
  \/ (Connect /\ QueueBounds')
  \/ (Disconnect /\ QueueBounds')
  \/ (SetToken /\ QueueBounds')
  \/ (Send /\ QueueBounds')
  \/ \E i \in 1..MaxSockets : i <= Len(net.sockets) /\ SocketOpen(i) /\ QueueBounds'
  \/ \E i \in 1..MaxSockets : i <= Len(net.sockets) /\ SocketClose(i) /\ QueueBounds'
  \/ \E t \in 1..MaxTimers : t <= Len(net.timers) /\ ReconnectTimeout(t) /\ QueueBounds'
  \/ (Heartbeat /\ QueueBounds')

SpecQueue == InitQueue /\ [][NextQueue]_vars

PendingTimers == {t \in 1..Len(net.timers) : net.timers[t].pending}

(* --------------------- properties: WebSocket client -------------------- *)

\* C22: in every reachable state, connectionState = 'connected' implies that
\* the client holds a socket.
C22_ConnectedHasSocket ==
  (client # None /\ client.connectionState = "connected") => client.ws # 0

\* C23: after disconnect() returned the client stays 'disconnected' with no
\* reconnect timer pending until connect() is called again.
C23_StaysDisconnected ==
  Quiet => (client.connectionState = "disconnected" /\ PendingTimers = {})

HandedIds == {net.handed[i].id : i \in 1..Len(net.handed)}

QueuedIds == {client.messageQueue[i].id : i \in 1..Len(client.messageQueue)}

\* the step is a send() call, from outside or from the heartbeat, that found
\* the queue full and queued its message
Overflows ==
  /\ out'.op \in {"send", "heartbeat"}
  /\ ~out'.res
  /\ Len(client.messageQueue) = QueueLimit

\* a message leaves the queue only when it is handed to the socket, or as the
\* oldest entry when the queue overflows; a message passed to send() is handed
\* to the socket or queued
NoSilentLoss ==
  /\ \A i \in 1..Len(client.messageQueue) :
       (client.messageQueue[i].id \notin QueuedIds') =>
          (\/ client.messageQueue[i].id \in (HandedIds' \ HandedIds)
           \/ (i = 1 /\ Overflows))
  /\ (net'.sends = net.sends + 1) => (net'.sends \in (HandedIds' \cup QueuedIds'))

\* C24: no message passed to send() is lost silently: every step of the
\* client hands a message to the socket or keeps it queued, the only removal
\* without transmission being the drop of the oldest entry on overflow.
C24_NoSilentLoss == [][NoSilentLoss]_vars

\* C25: the socket is given the messages in the order they were passed to
\* send().
C25_InOrder ==
  net # None =>
    \A i \in 1..Len(net.handed), j \in 1..Len(net.handed) :
      i < j => net.handed[i].id < net.handed[j].id

\* what a step does to the reconnect timers and to the attempt counter
BoundedReconnect ==
  /\ Cardinality(PendingTimers') <= 1
  /\ client'.reconnectAttempts <= client'.config.maxReconnectAttempts
  /\ (PendingTimers' # {}) =>
       (client'.reconnectAttempts < client'.config.maxReconnectAttempts)
  /\ (client'.connectionState = "reconnecting") => (PendingTimers' # {})
  /\ Len(net'.timers) <= Len(net.timers) + 1
  /\ \A t \in 1..Len(net'.timers) :
       (t > Len(net.timers)) =>
          (/\ net'.timers[t].pending
           /\ net'.timers[t].delay =
                Min(client'.config.reconnectInterval * (2 ^ client'.reconnectAttempts),
                    MaxReconnectDelay))
  /\ (client'.reconnectAttempts # client.reconnectAttempts) =>
       (\/ (out'.op = "reconnectTimeout" /\
            client'.reconnectAttempts = client.reconnectAttempts + 1)
        \/ (out'.op = "onopen" /\ client'.reconnectAttempts = 0))
  /\ (out'.op = "onopen") => (client'.reconnectAttempts = 0)
  /\ (out'.op = "onclose") =>
       IF client'.reconnectAttempts = client'.config.maxReconnectAttempts
       THEN client'.connectionState = "disconnected" /\ PendingTimers' = {}
       ELSE client'.connectionState = "reconnecting" /\ Cardinality(PendingTimers') = 1

\* C28: between two successful opens the attempt counter rises by one per
\* fired reconnect timer and never passes maxReconnectAttempts; a timer is
\* set for min(reconnectInterval * 2^attempts, 30000) ms, at most one is
\* pending, and none is pending once the counter is at its maximum, where a
\* lost connection leaves the client 'disconnected'; an open resets the
\* counter to 0.
C28_BoundedReconnect == [][BoundedReconnect]_vars

\* the connection was lost after the last attempt allowed, and the delay of
\* an earlier attempt was cut to 30000 ms
C28_Witness ==
  /\ out.op = "onclose"
  /\ client.reconnectAttempts = client.config.maxReconnectAttempts
  /\ client.connectionState = "disconnected"
  /\ PendingTimers = {}
  /\ \E t \in 1..Len(net.timers) :
       /\ net.timers[t].delay = MaxReconnectDelay
       /\ client.config.reconnectInterval * (2 ^ (t - 1)) > MaxReconnectDelay

\* a send() call that finds the queue full drops the oldest entry and puts
\* its own message last
OldestDiscarded ==
  /\ Len(client'.messageQueue) <= QueueLimit
  /\ Overflows =>
       (/\ Len(client'.messageQueue) = QueueLimit
        /\ \A i \in 1..(QueueLimit - 1) : client'.messageQueue[i] = client.messageQueue[i + 1]
        /\ client'.messageQueue[QueueLimit].id = net'.sends)

\* C29: messageQueue never holds more than the limit of messages, and when a
\* message is queued on a full queue the oldest queued message is the one
\* discarded.
C29_QueueBounded == [][OldestDiscarded]_vars

\* a message was queued on a full queue
C29_Witness ==
  /\ out.op = "send"
  /\ ~out.res
  /\ out.queued = QueueLimit
  /\ Len(client.messageQueue) = QueueLimit
  /\ client.messageQueue[QueueLimit].id = net.sends

====
